---- MODULE Spec2Model ----
(***************************************************************************)
(* A model of the SuperTuple library (rodriados/supertuple): the tuple     *)
(* storage (leaf_t, tuple_t, ntuple_t), reference tuples made by tie, and  *)
(* the combinators built on operation::get, and the combinators that take *)
(* a functor: zipwith, apply, foldl, foldr, scanl, scanr, foreach and      *)
(* rforeach.                                                               *)
(*                                                                         *)
(* A tuple is a sequence of leaves (positions 1..N stand for the C++       *)
(* indices 0..N-1).  A leaf of a value type holds its value; a leaf of a   *)
(* reference type holds the address of the storage it is bound to.         *)
(* Numbers are fixed-point: Scale units make 1, so that a double may hold  *)
(* a fraction that an int cannot.                                          *)
(***************************************************************************)
EXTENDS Integers, Sequences, FiniteSets, TLC

\* Largest arity of the tuple under test.
MaxLen == 2
\* Length of the caller's array.
ArrLen == 2
\* Units per whole number in the fixed-point representation of a number.
Scale == 2

VARIABLES
    array,   \* the caller's array of doubles (double array[])
    tuple,   \* the caller's owning tuple (auto tuple = tuple_t(...))
    tied,    \* the reference tuple (auto tied = tie(array))
    abcd,    \* the structured bindings (auto& [a, b, c, d] = tuple)
    r,       \* the tuple returned by the last combinator call
    call,    \* the call made last that returned a tuple: r, or an assigned tuple
    cmp,     \* the comparison made last with operator== and operator!=
    last,    \* the write the caller made last: what, to which object, where
    folded,  \* the value returned by the last foldl or foldr
    zipped,  \* the tuple of pairs returned by the last zip
    scanned, \* the tuple returned by the last scanl or scanr
    index,   \* the caller's counter handed to foreach and rforeach (int index)
    log,     \* the invocations of the functor during the last call, in order
    temporary, \* the storage of the temporary made last from a literal argument
    named,   \* the caller's named variable handed to a call (T named = v)
    converter \* the wrapper returned by the last convert (auto&& c = convert(t))

vars == <<array, tuple, tied, abcd, r, call, cmp, last,
          folded, zipped, scanned, index, log, temporary, named, converter>>

(***************************************************************************)
(* Numbers and element types                                               *)
(***************************************************************************)

\* The numbers a double holds here: 0, 1/Scale, ..., 1.
double == 0..Scale

\* The numbers an int holds: the whole ones.
int == {v \in double : v % Scale = 0}

\* The numbers of an element type (a reference type holds no number itself).
\* A std::string is told from another by a whole number, 0 for the empty one.
values_of(T) ==
    IF T \in {"int", "int&", "string", "string&"} THEN int ELSE double

is_reference(T) == T \in {"int&", "double&", "string&"}

remove_reference(T) ==
    CASE T = "int&" -> "int"
      [] T = "double&" -> "double"
      [] T = "string&" -> "string"
      [] OTHER -> T

add_lvalue_reference(T) ==
    CASE T = "int" -> "int&"
      [] T = "double" -> "double&"
      [] T = "string" -> "string&"
      [] OTHER -> T

\* The implicit conversion of number v to type T: a double converted to an
\* int loses its fraction, every other conversion keeps the number.
implicit_conversion(T, v) ==
    IF remove_reference(T) = "int" THEN v - (v % Scale) ELSE v


(***************************************************************************)
(* Storage: every object that can be referred to has an address.  Tuple    *)
(* indices are the C++ ones, 0..N-1; leaf I of a tuple t is t[I + 1] and   *)
(* array[I] is the element numbered I + 1 of the sequence array.           *)
(***************************************************************************)

\* The objects of the caller, by name.
memory ==
    [array |-> array, tuple |-> tuple, tied |-> tied, r |-> r,
     temporary |-> temporary, named |-> named]

\* The names of the caller's tuples.
Tuples == {"tuple", "tied", "r"}

\* The address of array[I].
address_of_array(I) == I + 1

\* The address of the value that leaf I of the tuple named n holds itself.
address_of(n, I) ==
    CASE n = "tuple" -> ArrLen + I + 1
      [] n = "r" -> ArrLen + MaxLen + I + 1
      [] OTHER -> 0

\* The address of the temporary that a literal argument materializes when it
\* is bound to a forwarding reference.
address_of_temporary == -1

\* The address of the caller's named variable.
address_of_named == -2

\* The number stored at address a.
load(m, a) ==
    IF a = address_of_named THEN m.named.v
    ELSE IF a < 0 THEN m.temporary.v
    ELSE IF a <= ArrLen THEN m.array[a]
    ELSE IF a <= ArrLen + MaxLen THEN m.tuple[a - ArrLen].m_value
    ELSE m.r[a - ArrLen - MaxLen].m_value

\* The declared type of the object at address a.
type_at(m, a) ==
    IF a = address_of_named THEN m.named.T
    ELSE IF a < 0 THEN m.temporary.T
    ELSE IF a <= ArrLen THEN "double"
    ELSE IF a <= ArrLen + MaxLen THEN m.tuple[a - ArrLen].T
    ELSE m.r[a - ArrLen - MaxLen].T

\* The built-in assignment to the object at address a, which converts v to
\* the object's type.
store(m, a, v) ==
    IF a = address_of_named
    THEN [m EXCEPT !.named.v = implicit_conversion(m.named.T, v)]
    ELSE IF a < 0
    THEN [m EXCEPT !.temporary.v = implicit_conversion(m.temporary.T, v)]
    ELSE IF a <= ArrLen
    THEN [m EXCEPT !.array[a] = implicit_conversion("double", v)]
    ELSE IF a <= ArrLen + MaxLen
    THEN [m EXCEPT !.tuple[a - ArrLen].m_value =
                       implicit_conversion(m.tuple[a - ArrLen].T, v)]
    ELSE [m EXCEPT !.r[a - ArrLen - MaxLen].m_value =
                       implicit_conversion(m.r[a - ArrLen - MaxLen].T, v)]

\* An expression naming the object at address a (an lvalue) ...
lvalue(m, a) == [T |-> type_at(m, a), at |-> a, v |-> load(m, a)]

\* ... and an expression that is only a number of type T (a prvalue).
prvalue(T, v) == [T |-> T, at |-> 0, v |-> v]

(***************************************************************************)
(* detail::leaf_t, operation::get, operation::set                          *)
(***************************************************************************)

\* leaf_t<I, T>(value): m_value (value).  A reference member binds to the
\* object the argument names, a value member copies the converted number.
leaf_t(T, x) ==
    IF is_reference(T)
    THEN [T |-> T, m_value |-> x.at]
    ELSE [T |-> T, m_value |-> implicit_conversion(T, x.v)]

\* The object the member of leaf I of the tuple named n designates: the
\* referred object when the element type is a reference, the leaf's own
\* value otherwise.
leaf_value(m, n, I) ==
    IF is_reference(m[n][I + 1].T)
    THEN m[n][I + 1].m_value
    ELSE address_of(n, I)

\* The number read from a leaf that was copied out of a tuple: its own value,
\* or the value of the object it refers to.
leaf_read(m, leaf) ==
    IF is_reference(leaf.T) THEN load(m, leaf.m_value) ELSE leaf.m_value

\* A get that yields the first leaf whatever the position asked for.
get_first(m, n, I) == lvalue(m, leaf_value(m, n, 0))

\* operation::get<I>(t): return leaf.value.
get(m, n, I) == lvalue(m, leaf_value(m, n, I))

\* The number read from get<I>(t).
read(m, n, I) == get(m, n, I).v

\* std::make_index_sequence<N>: 0, 1, ..., N-1.
make_index_sequence(N) == [k \in 1..N |-> k - 1]

\* tuple_t::count.
count(m, n) == Len(m[n])

\* The numbers read from every position of t, in positional order.
contents(m, n) == [k \in 1..count(m, n) |-> read(m, n, k - 1)]

\* tuple_element_t<tuple_t<T...>, I>.
tuple_element_t(m, n, I) == m[n][I + 1].T

\* leaf_t::operator=(U&& value): m_value = value.
leaf_assign(m, n, I, v) == store(m, leaf_value(m, n, I), v)

\* A set that writes the first leaf whatever the position asked for.
set_first(m, n, I, v) == store(m, leaf_value(m, n, 0), v)

\* operation::set<I>(t, value): leaf.value = value.
set(m, n, I, v) == store(m, leaf_value(m, n, I), v)


(***************************************************************************)
(* tuple_t, ntuple_t, tie, assignment, equality                            *)
(***************************************************************************)

\* tuple_t<T...>(U&&... value): detail::leaf_t<I, T>(value)... , for as many
\* values as the tuple has types.
tuple_t(Ts, xs) == [k \in 1..Len(Ts) |-> leaf_t(Ts[k], xs[k])]

\* The deduction guide tuple_t(T...) -> tuple_t<T...>.
deduced(xs) == [k \in 1..Len(xs) |-> remove_reference(xs[k].T)]

\* std::common_type_t<T...> of the arithmetic types of xs.
common_type_t(xs) ==
    IF \E k \in 1..Len(xs) : remove_reference(xs[k].T) = "double"
    THEN "double"
    ELSE "int"

\* The deduction guide ntuple_t(T&&...) ->
\* ntuple_t<std::common_type_t<T...>, sizeof...(T)>.
ndeduced(xs) == [k \in 1..Len(xs) |-> common_type_t(xs)]

\* An ntuple_t built from the first element of the array at every position.
ntuple_t_first(m, T, N) ==
    tuple_t([k \in 1..N |-> T],
            [k \in 1..N |-> lvalue(m, address_of_array(0))])

\* ntuple_t<T, N>(array): underlying_t(array[I]...).
ntuple_t(m, T, N) ==
    LET I == make_index_sequence(N)
    IN  tuple_t([k \in 1..N |-> T],
                [k \in 1..N |-> lvalue(m, address_of_array(I[k]))])

\* tie(T (&ref)[N]): ntuple_t<T&, N>(ref).
tie(m) == ntuple_t(m, add_lvalue_reference("double"), ArrLen)

\* The orders in which the language may evaluate N unsequenced operands.
Orders(N) ==
    {o \in [1..N -> 0..N - 1] : \A i, j \in 1..N : o[i] = o[j] => i = j}

\* tuple_t::operator=(other):
\* swallow(*this, accessor_t<I>(*this) = leaf_t<I, U>(other)...), one leaf
\* assignment per index I, evaluated in the given order.
RECURSIVE assign(_, _, _, _)
assign(m, dst, src, order) ==
    IF order = <<>> THEN m
    ELSE assign(leaf_assign(m, dst, Head(order), read(m, src, Head(order))),
                dst, src, Tail(order))

\* A structured binding whose names are all bound to the first leaf.
structured_binding_first(m, n) ==
    LET I == make_index_sequence(count(m, n))
    IN  [k \in 1..Len(I) |-> get(m, n, 0).at]

\* auto& [a, b, c, d] = tuple: binding I refers to tuple.get<I>().
structured_binding(m, n) ==
    LET I == make_index_sequence(count(m, n))
    IN  [k \in 1..Len(I) |-> get(m, n, I[k]).at]

\* A fold that compares the first of the positions only.
fold_equal_first(m, a, b, Is) ==
    IF Is = <<>> THEN TRUE
    ELSE read(m, a, Head(Is)) = read(m, b, Head(Is))

\* The fold ((get<I>(a) == get<I>(b)) && ...) over the indices Is.
RECURSIVE fold_equal(_, _, _, _)
fold_equal(m, a, b, Is) ==
    IF Is = <<>> THEN TRUE
    ELSE /\ read(m, a, Head(Is)) = read(m, b, Head(Is))
         /\ fold_equal(m, a, b, Tail(Is))

\* operator==(a, b): the element-wise overload when both tuples have the
\* same index sequence, the overload returning false otherwise.
operator_eq(m, a, b) ==
    IF make_index_sequence(count(m, a)) = make_index_sequence(count(m, b))
    THEN fold_equal(m, a, b, make_index_sequence(count(m, a)))
    ELSE FALSE

\* operator!=(a, b): !operator==(a, b).
operator_ne(m, a, b) == ~operator_eq(m, a, b)

(***************************************************************************)
(* The combinators                                                         *)
(***************************************************************************)

\* The pack expansions tuple_element_t<tuple_t<T...>, I>... and
\* operation::get<I>(t)... over the indices Is.
elements(m, n, Is) == [k \in 1..Len(Is) |-> tuple_element_t(m, n, Is[k])]
gets(m, n, Is) == [k \in 1..Len(Is) |-> get(m, n, Is[k])]

\* A concat that puts the elements of b before those of a.
concat_swapped(m, a, b) ==
    LET I == make_index_sequence(count(m, a))
        J == make_index_sequence(count(m, b))
    IN  tuple_t(elements(m, b, J) \o elements(m, a, I),
                gets(m, b, J) \o gets(m, a, I))

\* A concat that decays the types of the elements, and so copies what a
\* reference element refers to.
concat_decayed(m, a, b) ==
    LET I == make_index_sequence(count(m, a))
        J == make_index_sequence(count(m, b))
    IN  tuple_t(deduced(gets(m, a, I) \o gets(m, b, J)),
                gets(m, a, I) \o gets(m, b, J))

\* concat(a, b): tuple_t<T..., U...>(get<I>(a)..., get<J>(b)...).
concat(m, a, b) ==
    LET I == make_index_sequence(count(m, a))
        J == make_index_sequence(count(m, b))
    IN  tuple_t(elements(m, a, I) \o elements(m, b, J),
                gets(m, a, I) \o gets(m, b, J))

\* prepend(t, element): tuple_t<E, T...>(element, get<I>(t)...).
prepend(m, t, element) ==
    LET I == make_index_sequence(count(m, t))
    IN  tuple_t(<<remove_reference(element.T)>> \o elements(m, t, I),
                <<element>> \o gets(m, t, I))

\* An append that puts the element first.
append_first(m, t, element) ==
    LET I == make_index_sequence(count(m, t))
    IN  tuple_t(<<remove_reference(element.T)>> \o elements(m, t, I),
                <<element>> \o gets(m, t, I))

\* append(t, element): tuple_t<T..., E>(get<I>(t)..., element).
append(m, t, element) ==
    LET I == make_index_sequence(count(m, t))
    IN  tuple_t(elements(m, t, I) \o <<remove_reference(element.T)>>,
                gets(m, t, I) \o <<element>>)

\* A tail that drops the last element instead of the first.
tail_last(m, t) ==
    LET I == Tail(make_index_sequence(count(m, t)))
        I_1 == [k \in 1..Len(I) |-> I[k] - 1]
    IN  tuple_t(elements(m, t, I_1), gets(m, t, I_1))

\* tail(t), for t of index sequence <0, I...>:
\* tuple_t<tuple_element_t<tuple_t<T...>, I>...>(get<I>(t)...).
tail(m, t) ==
    LET I == Tail(make_index_sequence(count(m, t)))
    IN  tuple_t(elements(m, t, I), gets(m, t, I))

\* An init that drops the first element instead of the last.
init_first(m, t) ==
    LET I == Tail(make_index_sequence(count(m, t)))
    IN  tuple_t(elements(m, t, I), gets(m, t, I))

\* init(t), for t of index sequence <0, I...>:
\* tuple_t<tuple_element_t<tuple_t<T...>, I-1>...>(get<I-1>(t)...).
init(m, t) ==
    LET I == Tail(make_index_sequence(count(m, t)))
        I_1 == [k \in 1..Len(I) |-> I[k] - 1]
    IN  tuple_t(elements(m, t, I_1), gets(m, t, I_1))

\* A reverse that keeps the order of the elements.
reverse_kept(m, t) ==
    LET I == make_index_sequence(count(m, t))
    IN  tuple_t(elements(m, t, I), gets(m, t, I))

\* reverse(t), with J = sizeof...(T):
\* tuple_t<tuple_element_t<tuple_t<T...>, J-I-1>...>(get<J-I-1>(t)...).
reverse(m, t) ==
    LET J == count(m, t)
        I == make_index_sequence(J)
        J_I_1 == [k \in 1..Len(I) |-> J - I[k] - 1]
    IN  tuple_t(elements(m, t, J_I_1), gets(m, t, J_I_1))


(***************************************************************************)
(* pair_t, zip                                                             *)
(***************************************************************************)

\* pair_t<T, U>(x, y): a tuple_t<T, U>.
pair_t(T, U, x, y) == tuple_t(<<T, U>>, <<x, y>>)

\* pair_t::first(): return operation::get<0>(*this), read.
first(m, p) == leaf_read(m, p[1])

\* pair_t::second(): return operation::get<1>(*this), read.
second(m, p) == leaf_read(m, p[2])

\* A zip whose pairs hold b's element first and a's second.
zip_swapped(m, a, b) ==
    LET I == make_index_sequence(count(m, a))
    IN  [k \in 1..Len(I) |->
            pair_t(tuple_element_t(m, b, I[k]), tuple_element_t(m, a, I[k]),
                   get(m, b, I[k]), get(m, a, I[k]))]

\* zip(a, b): tuple_t(pair_t<T, U>(get<I>(a), get<I>(b))...).
zip(m, a, b) ==
    LET I == make_index_sequence(count(m, a))
    IN  [k \in 1..Len(I) |->
            pair_t(tuple_element_t(m, a, I[k]), tuple_element_t(m, b, I[k]),
                   get(m, a, I[k]), get(m, b, I[k]))]

(***************************************************************************)
(* Functors, detail::invoke, detail::flip, zipwith, apply                  *)
(***************************************************************************)

\* ipow(a, b): (int) std::pow(a, b) of two whole numbers a, b >= 0.
pow(a, b) == IF b = 0 THEN 1 ELSE IF a = 0 THEN 0 ELSE a ^ b

\* The call of the caller's functor named f with x and y:
\*   "add":  [](auto x, auto y) { return x + y; }
\*   "ipow": int ipow(const int a, const int b) { return (int) std::pow(a, b); }
operator_call(f, x, y) ==
    IF f = "ipow"
    THEN LET a == implicit_conversion("int", x.v) \div Scale
             b == implicit_conversion("int", y.v) \div Scale
         IN  prvalue("int", Scale * pow(a, b))
    ELSE prvalue(common_type_t(<<x, y>>), x.v + y.v)

\* The functors of the caller.
Functors == {[f |-> f, flipped |-> FALSE] : f \in {"add", "ipow"}}

\* detail::flip(lambda): a functor that calls lambda(y, x).
flip(F) == [F EXCEPT !.flipped = ~F.flipped]

\* detail::invoke(lambda, object, args...): return lambda(object, args...).
invoke(F, x, y) ==
    IF F.flipped THEN operator_call(F.f, y, x) ELSE operator_call(F.f, x, y)

\* The record of the invocation for position I: the numbers the caller's
\* functor received as its first and its second argument.
invocation(F, I, x, y) ==
    IF F.flipped THEN [I |-> I, x |-> y.v, y |-> x.v]
    ELSE [I |-> I, x |-> x.v, y |-> y.v]

\* A zipwith that hands b's element to the functor first and a's second.
zipwith_flipped(m, a, b, F, order) ==
    LET I == make_index_sequence(count(m, a))
        xs == [k \in 1..Len(I) |-> invoke(F, get(m, b, I[k]), get(m, a, I[k]))]
    IN  [ret |-> tuple_t(deduced(xs), xs),
         log |-> [k \in 1..Len(order) |->
                     invocation(F, order[k], get(m, b, order[k]),
                                get(m, a, order[k]))]]

\* zipwith(a, b, lambda):
\* tuple_t(detail::invoke(lambda, get<I>(a), get<I>(b))...), the invocations
\* being evaluated in the given order.
zipwith(m, a, b, F, order) ==
    LET I == make_index_sequence(count(m, a))
        xs == [k \in 1..Len(I) |-> invoke(F, get(m, a, I[k]), get(m, b, I[k]))]
    IN  [ret |-> tuple_t(deduced(xs), xs),
         log |-> [k \in 1..Len(order) |->
                     invocation(F, order[k], get(m, a, order[k]),
                                get(m, b, order[k]))]]

\* An apply that hands the first element to the functor at every position.
apply_first(m, t, F, arg, order) ==
    LET I == make_index_sequence(count(m, t))
        xs == [k \in 1..Len(I) |-> invoke(F, get(m, t, 0), arg)]
    IN  [ret |-> tuple_t(deduced(xs), xs),
         log |-> [k \in 1..Len(order) |->
                     invocation(F, order[k], get(m, t, 0), arg)]]

\* apply(t, lambda, args...):
\* tuple_t(detail::invoke(lambda, get<I>(t), args...)...), the invocations
\* being evaluated in the given order.
apply(m, t, F, arg, order) ==
    LET I == make_index_sequence(count(m, t))
        xs == [k \in 1..Len(I) |-> invoke(F, get(m, t, I[k]), arg)]
    IN  [ret |-> tuple_t(deduced(xs), xs),
         log |-> [k \in 1..Len(order) |->
                     invocation(F, order[k], get(m, t, order[k]), arg)]]

\* Whether every element of the tuple named t is a number or refers to one.
is_arithmetic(m, t) ==
    \A k \in 1..Len(m[t]) : remove_reference(m[t][k].T) # "string"

\* forward(t, lambda) for a tuple of two elements:
\* detail::invoke(lambda, get<I>(t)...).
operation_forward(m, t, F) ==
    [ret |-> invoke(F, get(m, t, 0), get(m, t, 1)),
     log |-> <<invocation(F, 0, get(m, t, 0), get(m, t, 1))>>]


(***************************************************************************)
(* head, last, detail::fold, foldl, foldr                                  *)
(***************************************************************************)

\* operation::head(t): return operation::get<0>(t).
head(m, t) == get(m, t, 0)

\* operation::last(t): return operation::get<J - 1>(t), J the arity of t.
operation_last(m, t) ==
    LET J == count(m, t)
    IN  get(m, t, J - 1)

\* Memory while a call is evaluated whose argument is the expression e: a
\* literal bound to a forwarding reference has materialized a temporary.
materialized(m, e) == [m EXCEPT !.temporary = [T |-> e.T, v |-> e.v]]

\* The parameter B&& base inside the function it was passed to: a name, so an
\* lvalue, here of the temporary.
parameter(m, e) == lvalue(materialized(m, e), address_of_temporary)

\* detail::fold: the base case returns std::remove_reference_t<B>(base), a
\* step recurses with detail::invoke(lambda, base, get<I>(t)) as the base.
\* The invocations are appended to l.
RECURSIVE fold(_, _, _, _, _, _)
fold(m, t, F, base, Is, l) ==
    IF Is = <<>>
    THEN [ret |-> prvalue(remove_reference(base.T), base.v), log |-> l]
    ELSE LET I == Head(Is)
             J == Tail(Is)
         IN  fold(m, t, F, invoke(F, base, get(m, t, I)), J,
                  Append(l, invocation(F, I, base, get(m, t, I))))

\* A foldl that hands the element to the functor first and the accumulator
\* second.
foldl_flipped(m, t, F, base) ==
    fold(m, t, flip(F), base, make_index_sequence(count(m, t)), <<>>)

\* foldl(t, lambda, base): detail::fold(t, lambda, base, index_sequence<I...>).
foldl(m, t, F, base) ==
    LET I == make_index_sequence(count(m, t))
    IN  fold(m, t, F, base, I, <<>>)

\* foldl(t, lambda), for a tuple indexed <0, I...>:
\* detail::fold(t, lambda, head(t), index_sequence<I...>).
foldl_head(m, t, F) ==
    LET I == Tail(make_index_sequence(count(m, t)))
    IN  fold(m, t, F, head(m, t), I, <<>>)

\* A foldr that reverses the traversal and leaves the functor as it is.
foldr_unflipped(m, t, F, base) ==
    LET J == count(m, t)
        I == make_index_sequence(J)
    IN  fold(m, t, F, base, [k \in 1..Len(I) |-> J - I[k] - 1], <<>>)

\* foldr(t, lambda, base):
\* detail::fold(t, detail::flip(lambda), base, index_sequence<(J-I-1)...>).
foldr(m, t, F, base) ==
    LET J == count(m, t)
        I == make_index_sequence(J)
    IN  fold(m, t, flip(F), base, [k \in 1..Len(I) |-> J - I[k] - 1], <<>>)

\* foldr(t, lambda), for a tuple indexed <0, I...>:
\* detail::fold(t, detail::flip(lambda), last(t), index_sequence<(J-I-1)...>),
\* with J = 1 + sizeof...(I).
foldr_last(m, t, F) ==
    LET I == Tail(make_index_sequence(count(m, t)))
        J == 1 + Len(I)
    IN  fold(m, t, flip(F), operation_last(m, t),
             [k \in 1..Len(I) |-> J - I[k] - 1], <<>>)

(***************************************************************************)
(* detail::scan, scanl, scanr                                              *)
(***************************************************************************)

\* prepend(tuple_t<T...>&& t, E&& element): tuple_t<E, T...>(element,
\* get<I>(t)...), with E a reference type when element is an lvalue.
prepend_moving(m, t, element) ==
    LET I == make_index_sequence(count(m, t))
        E == IF element.at # 0 THEN add_lvalue_reference(element.T)
             ELSE element.T
    IN  tuple_t(<<E>> \o elements(m, t, I), <<element>> \o gets(m, t, I))

\* append(tuple_t<T...>&& t, E&& element): tuple_t<T..., E>(get<I>(t)...,
\* element), with E a reference type when element is an lvalue.
append_moving(m, t, element) ==
    LET I == make_index_sequence(count(m, t))
        E == IF element.at # 0 THEN add_lvalue_reference(element.T)
             ELSE element.T
    IN  tuple_t(elements(m, t, I) \o <<E>>, gets(m, t, I) \o <<element>>)

\* Memory while the tuple s, the value of a subexpression, is passed on.
passing(m, s) == [m EXCEPT !.r = s]

\* detail::scan: the base case returns tuple_t<B>(base), with B a reference
\* type when base is an lvalue; a step prepends
\* std::remove_reference_t<B>(base) to the scan of the remaining indices with
\* detail::invoke(lambda, base, get<I>(t)) as the base.  The invocations are
\* appended to l.
RECURSIVE scan(_, _, _, _, _, _)
scan(m, t, F, base, Is, l) ==
    IF Is = <<>>
    THEN LET B == IF base.at # 0 THEN add_lvalue_reference(base.T)
                  ELSE base.T
         IN  [ret |-> tuple_t(<<B>>, <<base>>), log |-> l]
    ELSE LET I == Head(Is)
             J == Tail(Is)
             s == scan(m, t, F, invoke(F, base, get(m, t, I)), J,
                       Append(l, invocation(F, I, base, get(m, t, I))))
         IN  [ret |-> prepend_moving(
                          passing(m, s.ret), "r",
                          prvalue(remove_reference(base.T), base.v)),
              log |-> s.log]

\* A scanl that hands the element to the functor first and the accumulator
\* second.
scanl_flipped(m, t, F) ==
    scan(m, t, flip(F), head(m, t), Tail(make_index_sequence(count(m, t))),
         <<>>)

\* A scanl that starts from the base and leaves the first element out.
scanl_tail(m, t, F, base) ==
    LET N == count(m, t)
        I == IF N = 0 THEN <<>> ELSE Tail(make_index_sequence(N))
    IN  scan(m, t, F, base, I, <<>>)

\* scanl(t, lambda, base): detail::scan(t, lambda, base, index_sequence<I...>).
scanl(m, t, F, base) ==
    LET I == make_index_sequence(count(m, t))
    IN  scan(m, t, F, base, I, <<>>)

\* scanl(t, lambda), for a tuple indexed <0, I...>:
\* detail::scan(t, lambda, head(t), index_sequence<I...>).
scanl_head(m, t, F) ==
    LET I == Tail(make_index_sequence(count(m, t)))
    IN  scan(m, t, F, head(m, t), I, <<>>)

\* scanr(t, lambda, base): reverse(detail::scan(t, detail::flip(lambda), base,
\* index_sequence<(J-I-1)...>)).
scanr(m, t, F, base) ==
    LET J == count(m, t)
        I == make_index_sequence(J)
        s == scan(m, t, flip(F), base, [k \in 1..Len(I) |-> J - I[k] - 1],
                  <<>>)
    IN  [ret |-> reverse(passing(m, s.ret), "r"), log |-> s.log]

\* A scanr that leaves the scan in the order of its accumulators.
scanr_unreversed(m, t, F) ==
    LET I == Tail(make_index_sequence(count(m, t)))
        J == 1 + Len(I)
    IN  scan(m, t, flip(F), operation_last(m, t),
             [k \in 1..Len(I) |-> J - I[k] - 1], <<>>)

\* scanr(t, lambda), for a tuple indexed <0, I...>:
\* reverse(detail::scan(t, detail::flip(lambda), last(t),
\* index_sequence<(J-I-1)...>)), with J = 1 + sizeof...(I).
scanr_last(m, t, F) ==
    LET I == Tail(make_index_sequence(count(m, t)))
        J == 1 + Len(I)
        s == scan(m, t, flip(F), operation_last(m, t),
                  [k \in 1..Len(I) |-> J - I[k] - 1], <<>>)
    IN  [ret |-> reverse(passing(m, s.ret), "r"), log |-> s.log]

(***************************************************************************)
(* foreach, rforeach                                                       *)
(***************************************************************************)

\* The caller's functor [](auto& x, auto& y) { x = x + (++y); }, called with
\* the object x names and the counter: the counter is incremented, then the
\* sum is assigned to the object.
increment(m, x, y) ==
    LET y1 == y + Scale
    IN  [m |-> store(m, x.at, x.v + y1), y |-> y1]

\* The fold over the comma operator
\* ((void) detail::invoke(lambda, get<Is>(t), args...), ...): one invocation
\* per index, each sequenced before the next, on the memory and the counter
\* that the invocations before it left.  The invocations are appended to l.
RECURSIVE comma(_, _, _, _, _)
comma(m, t, Is, y, l) ==
    IF Is = <<>> THEN [m |-> m, y |-> y, log |-> l]
    ELSE LET x == get(m, t, Head(Is))
             done == increment(m, x, y)
         IN  comma(done.m, t, Tail(Is), done.y,
                   Append(l, [I |-> Head(Is), x |-> x.v, y |-> y]))

\* A foreach that visits the positions from the last to the first.
foreach_descending(m, t, y) ==
    LET J == count(m, t)
        I == make_index_sequence(J)
    IN  comma(m, t, [k \in 1..Len(I) |-> J - I[k] - 1], y, <<>>)

\* foreach(t, lambda, args...):
\* ((void) detail::invoke(lambda, get<I>(t), args...), ...).
foreach(m, t, y) ==
    LET I == make_index_sequence(count(m, t))
    IN  comma(m, t, I, y, <<>>)

\* rforeach(t, lambda, args...):
\* ((void) detail::invoke(lambda, get<J-I-1>(t), args...), ...).
rforeach(m, t, y) ==
    LET J == count(m, t)
        I == make_index_sequence(J)
    IN  comma(m, t, [k \in 1..Len(I) |-> J - I[k] - 1], y, <<>>)

(***************************************************************************)
(* Extra arguments: std::forward<decltype(args)>(args)... in apply,        *)
(* foreach and rforeach                                                    *)
(***************************************************************************)

\* std::forward<A>(args) for the parameter A&& args: an lvalue when the
\* caller passed a named variable (A is a reference type), an xvalue when the
\* caller passed a temporary.
forward(passed) == IF passed = "named" THEN "lvalue" ELSE "xvalue"

\* The object that the parameter A&& args is bound to.
bound(passed) ==
    IF passed = "named" THEN address_of_named ELSE address_of_temporary

\* What an object of type T that held v holds after it was moved from: a
\* scalar keeps its number, a std::string holds g, whatever the library
\* leaves in a moved-from string.
moved_from(T, v, g) == IF remove_reference(T) = "string" THEN g ELSE v

\* One detail::invoke(lambda, get<I>(t), std::forward<decltype(args)>(args))
\* of a functor of the caller, in the state s that the invocations before it
\* left:
\*   kind "value":      [](auto x, auto y) { return x + y; } for apply,
\*                      [](auto& x, auto y) { x = x + y; } for foreach;
\*   kind "reference":  the same with auto&& y, and ++y done first.
\* A parameter y taken by value is initialized from the forwarded expression:
\* copied from an lvalue, moved from an xvalue.
invocation_of(op, s, t, I, arg, g) ==
    LET x == get(s.m, t, I)
        T == type_at(s.m, arg.at)
        held == load(s.m, arg.at)
        moves == arg.kind = "value" /\ arg.category = "xvalue"
        m1 == IF arg.kind = "reference" THEN store(s.m, arg.at, held + Scale)
              ELSE IF moves
              THEN store(s.m, arg.at, moved_from(T, held, g))
              ELSE s.m
        y == IF arg.kind = "reference" THEN held + Scale ELSE held
        R == IF x.T = "double" \/ T = "double" THEN "double" ELSE "int"
    IN  [m |-> IF op = "apply" THEN m1 ELSE store(m1, x.at, x.v + y),
         consumed |-> s.consumed \/ (moves /\ T = "string"),
         log |-> Append(s.log, [I |-> I, at |-> arg.at, y |-> held,
                                consumed |-> s.consumed]),
         ret |-> [s.ret EXCEPT ![I + 1] = prvalue(R, x.v + y)]]

\* The invocations for the indices Is, one after the other.
RECURSIVE invocations(_, _, _, _, _, _)
invocations(op, s, t, Is, arg, g) ==
    IF Is = <<>> THEN s
    ELSE invocations(op, invocation_of(op, s, t, Head(Is), arg, g), t,
                     Tail(Is), arg, g)

\* The state before the first invocation of a call on the tuple t.
uninvoked(m, t) ==
    [m |-> m, consumed |-> FALSE, log |-> <<>>,
     ret |-> [k \in 1..count(m, t) |-> prvalue("int", 0)]]

\* apply(t, lambda, args...), its invocations evaluated in the given order:
\* tuple_t(detail::invoke(lambda, get<I>(t),
\*                        std::forward<decltype(args)>(args)...)...).
apply_forwarding(m, t, arg, order, g) ==
    LET s == invocations("apply", uninvoked(m, t), t, order, arg, g)
    IN  [s EXCEPT !.ret = tuple_t(deduced(s.ret), s.ret)]

\* foreach(t, lambda, args...): ((void) detail::invoke(lambda, get<I>(t),
\* std::forward<decltype(args)>(args)...), ...).
foreach_forwarding(m, t, arg, g) ==
    LET I == make_index_sequence(count(m, t))
    IN  invocations("foreach", uninvoked(m, t), t, I, arg, g)

\* rforeach(t, lambda, args...): ((void) detail::invoke(lambda,
\* get<J-I-1>(t), std::forward<decltype(args)>(args)...), ...).
rforeach_forwarding(m, t, arg, g) ==
    LET J == count(m, t)
        I == make_index_sequence(J)
    IN  invocations("rforeach", uninvoked(m, t), t,
                    [k \in 1..Len(I) |-> J - I[k] - 1], arg, g)

(***************************************************************************)
(* detail::converter_t, convert                                            *)
(***************************************************************************)

\* tuple_t(tuple_t&&) = default, and tuple_t(const tuple_t&) = default: every
\* leaf is built from the leaf at its position, a reference leaf is bound to
\* the object the other one refers to.
tuple_copy(m, t) ==
    LET I == make_index_sequence(count(m, t))
    IN  tuple_t(elements(m, t, I), gets(m, t, I))

\* A convert that takes its own copy of an lvalue tuple as well.
convert_owning(m, t, category) ==
    [T |-> "value", n |-> "", m_ref |-> tuple_copy(m, t)]

\* convert(T&& t): detail::converter_t(std::forward<decltype(t)>(t)), a
\* converter_t<T&> whose m_ref is bound to t for an lvalue, a converter_t<T>
\* whose m_ref is built from t for an rvalue.
convert(m, t, category) ==
    IF category = "lvalue"
    THEN [T |-> "reference", n |-> t, m_ref |-> <<>>]
    ELSE [T |-> "value", n |-> "", m_ref |-> tuple_copy(m, t)]

\* The tuple that m_ref designates.
wrapped(m, c) == IF c.T = "reference" THEN m[c.n] ELSE c.m_ref

\* converter_t::operator U() &&: forward<U>(make_index_sequence<count>()),
\* which returns U {operation::get<I>(m_ref)...}: the elements are read and
\* passed to U from left to right.  U has the element types of the tuple
\* without their references.
operator_U(m, c) ==
    LET t == wrapped(m, c)
        I == make_index_sequence(Len(t))
        xs == [k \in 1..Len(I) |->
                  prvalue(remove_reference(t[I[k] + 1].T),
                          leaf_read(m, t[I[k] + 1]))]
    IN  [ret |-> tuple_t(deduced(xs), xs),
         log |-> [k \in 1..Len(I) |-> [I |-> I[k], x |-> xs[k].v]]]


(***************************************************************************)
(* Construction and assignment from arrays and from other tuples           *)
(***************************************************************************)

\* ntuple_t<T, N>(std::move(array)): underlying_t(std::move(array[I])...),
\* every element of the array moved into its leaf; g is what a moved-from
\* element holds where its type does not keep its number.
ntuple_t_moving(m, T, N, g) ==
    [ret |-> ntuple_t(m, T, N),
     m |-> [m EXCEPT !.array =
                [i \in 1..ArrLen |->
                    IF i <= N THEN moved_from("double", m.array[i], g)
                    ELSE m.array[i]]]]

\* The subscripts array[I] that the construction of an ntuple_t<T, N> from an
\* array evaluates, with the numbers it reads.
subscripts(m, N) ==
    LET I == make_index_sequence(N)
    IN  [k \in 1..N |-> [I |-> I[k], x |-> load(m, address_of_array(I[k]))]]


\* tie(T&... ref) for one named variable: tuple_t<T&>(ref).
tie_refs(m) ==
    tuple_t(<<add_lvalue_reference(m.named.T)>>, <<lvalue(m, address_of_named)>>)

\* Whether an element of type U initializes or is assigned to one of type T:
\* the arithmetic types convert to each other, a std::string to itself.
is_convertible(U, T) ==
    (remove_reference(U) = "string") = (remove_reference(T) = "string")

\* The forwarding of every source member as if it were an owned value.
forward_member_moved(U) == "xvalue"

\* std::forward<decltype(other.m_value)>(other.m_value) for a leaf_t<I, U>&&
\* other: decltype names the member's declared type U, so the member is
\* forwarded as an lvalue when U is a reference type and as an xvalue
\* otherwise.
forward_member(U) == IF is_reference(U) THEN "lvalue" ELSE "xvalue"

\* The source leaf as the constructor or operator= of the destination leaf
\* receives it: static_cast<const leaf_t<I, U>&>(other) from a tuple passed
\* as an lvalue, std::forward<leaf_t<I, U>>(other) from one passed as an
\* rvalue.
forward_leaf(U, category) ==
    IF category = "lvalue" THEN "lvalue" ELSE forward_member(U)

\* Memory after an object was initialized or assigned from the expression x
\* of the given category: an lvalue is copied and keeps its value, an xvalue
\* is moved from.
initialized_from(m, x, category, g) ==
    IF category = "xvalue" THEN store(m, x.at, moved_from(x.T, x.v, g))
    ELSE m

\* tuple_t<T...>(other) for a tuple_t<U...> other:
\* detail::leaf_t<I, T>(leaf_t<I, U>(other))..., the leaves initialized in
\* the order of the bases, leaf I from leaf I of other.
RECURSIVE construct(_, _, _, _, _, _)
construct(s, Ts, src, Is, category, g) ==
    IF Is = <<>> THEN s
    ELSE LET I == Head(Is)
             x == get(s.m, src, I)
             U == tuple_element_t(s.m, src, I)
         IN  construct(
                 [m |-> initialized_from(s.m, x, forward_leaf(U, category), g),
                  ret |-> Append(s.ret, leaf_t(Ts[I + 1], x))],
                 Ts, src, Tail(Is), category, g)

\* A converting constructor that sets every position from position 0 of the
\* source.
tuple_t_from_first(m, Ts, src, category, g) ==
    [m |-> m, ret |-> tuple_t(Ts, [k \in 1..Len(Ts) |-> get(m, src, 0)])]

\* tuple_t<Ts...> built from the tuple named src, passed as an lvalue or as
\* an rvalue: the leaves and the memory the construction leaves.
tuple_t_from(m, Ts, src, category, g) ==
    construct([m |-> m, ret |-> <<>>], Ts, src,
              make_index_sequence(count(m, src)), category, g)

\* tuple_t::operator=(other) for a tuple passed as an lvalue or as an rvalue:
\* swallow(*this, accessor_t<I>(*this) = leaf_t<I, U>(other)...), one leaf
\* assignment per index I, evaluated in the given order.
RECURSIVE assign_from(_, _, _, _, _, _)
assign_from(m, dst, src, order, category, g) ==
    IF order = <<>> THEN m
    ELSE LET I == Head(order)
             x == get(m, src, I)
             U == tuple_element_t(m, src, I)
         IN  assign_from(
                 initialized_from(leaf_assign(m, dst, I, x.v), x,
                                  forward_leaf(U, category), g),
                 dst, src, Tail(order), category, g)

\* The direct base classes of tuple_t, detail::leaf_t<I, T>..., in the order
\* of their declaration.
bases(m, t) == make_index_sequence(count(m, t))

\* A destructor that destroys the leaves in the order of their declaration.
destructor_ascending(m, t) ==
    LET B == bases(m, t)
    IN  [k \in 1..Len(B) |-> [I |-> B[k], x |-> read(m, t, B[k])]]

\* ~tuple_t(), which the class does not declare: the implicit destructor
\* destroys the direct bases in the reverse order of their declaration, each
\* leaf destroying its m_value.
destructor(m, t) ==
    LET B == bases(m, t)
    IN  [k \in 1..Len(B) |->
            [I |-> B[Len(B) + 1 - k], x |-> read(m, t, B[Len(B) + 1 - k])]]


\* Memory after a callee initialized one object from every element of the
\* tuple named t, which it received in the given value category: get<I>(t)
\* is an lvalue of the element for a tuple received as const tuple_t&, and
\* what the element forwards as for one received as tuple_t&&.
RECURSIVE taken(_, _, _, _, _)
taken(m, t, Is, category, g) ==
    IF Is = <<>> THEN m
    ELSE LET x == get(m, t, Head(Is))
             U == tuple_element_t(m, t, Head(Is))
         IN  taken(initialized_from(m, x, forward_leaf(U, category), g),
                   t, Tail(Is), category, g)

\* The argument tuples of a call as its moving form would leave them.
copying_form_moved(m, a, b, g) ==
    LET m1 == IF a \in {"tuple", "tied"}
              THEN taken(m, a, make_index_sequence(count(m, a)), "xvalue", g)
              ELSE m
    IN  IF b \in {"tuple", "tied"}
        THEN taken(m1, b, make_index_sequence(count(m1, b)), "xvalue", g)
        ELSE m1

\* Memory after the copying form of a combinator read the elements of its
\* argument tuples a and b, which it receives as const tuple_t&.
copying_form(m, a, b, g) ==
    LET m1 == IF a \in {"tuple", "tied"}
              THEN taken(m, a, make_index_sequence(count(m, a)), "lvalue", g)
              ELSE m
    IN  IF b \in {"tuple", "tied"}
        THEN taken(m1, b, make_index_sequence(count(m1, b)), "lvalue", g)
        ELSE m1


(***************************************************************************)
(* The caller: a program that owns an array and a tuple, ties the array    *)
(* and destructures the tuple.  It then either calls combinators and       *)
(* compares their results, or writes to what it owns.                      *)
(***************************************************************************)

no_call == [op |-> "none", a |-> "", b |-> "", xs |-> <<>>, was |-> <<>>,
            prev |-> <<"none", "">>]

no_cmp == [a |-> "", b |-> "", eq |-> FALSE, ne |-> FALSE]

no_write == [op |-> "none", n |-> "", I |-> 0, v |-> 0]

no_value == [T |-> "int", v |-> 0]

no_converter == [T |-> "none", n |-> "", m_ref |-> <<>>]

\* The literals of the caller: the ints, and the doubles that are no int.
Literal ==
    {prvalue("int", v) : v \in int}
        \cup {prvalue("double", v) : v \in double \ int}

\* The argument lists of up to MaxLen int literals.
IntLiterals ==
    UNION {[1..n -> {prvalue("int", v) : v \in int}] : n \in 0..MaxLen}

\* The argument lists of up to MaxLen literals.
Literals == UNION {[1..n -> Literal] : n \in 0..MaxLen}

\* The numbers of an argument list.
numbers(xs) == [k \in 1..Len(xs) |-> xs[k].v]

\* double array[] = {...}, with increasing numbers; auto tuple = tuple_t(...);
\* auto tied = tie(array); auto& [a, b, c, d] = tuple.
Init ==
    /\ array \in {x \in [1..ArrLen -> double] :
                      \A i, j \in 1..ArrLen : i < j => x[i] < x[j]}
    /\ tuple \in {tuple_t(deduced(xs), xs) : xs \in IntLiterals}
    /\ r = <<>>
    /\ temporary = no_value
    /\ named = no_value
    /\ converter = no_converter
    /\ tied = tie([array |-> array, tuple |-> tuple, tied |-> <<>>, r |-> r,
                   temporary |-> temporary, named |-> named])
    /\ abcd = structured_binding(
                  [array |-> array, tuple |-> tuple, tied |-> tied, r |-> r,
                   temporary |-> temporary, named |-> named],
                  "tuple")
    /\ call = no_call
    /\ cmp = no_cmp
    /\ last = no_write
    /\ folded = no_value
    /\ zipped = <<>>
    /\ scanned = <<>>
    /\ index = 0
    /\ log = <<>>

\* The caller's state after the write op of v to position I of n left memory
\* as m.
Written(m, op, n, I, v) ==
    /\ array' = m.array
    /\ tuple' = m.tuple
    /\ last' = [op |-> op, n |-> n, I |-> I, v |-> v]
    /\ UNCHANGED <<tied, abcd, r, cmp>>
    /\ UNCHANGED <<folded, zipped, scanned, index, log, temporary, named>>
    /\ UNCHANGED converter

\* The caller's objects after the copying form of the combinator call c read
\* its argument tuples; the library chooses what a moved-from string holds.
Kept(c) ==
    \E g \in int :
        LET m == copying_form(memory, c.a, c.b, g)
        IN  /\ array' = m.array
            /\ tuple' = m.tuple
            /\ named' = m.named

\* The caller's state after combinator call c returned t.
Returned(t, c) ==
    /\ r' = t
    /\ call' = c
    /\ cmp' = no_cmp
    /\ Kept(c)
    /\ UNCHANGED <<tied, abcd, last>>
    /\ UNCHANGED <<folded, zipped, scanned, index, log, temporary>>
    /\ UNCHANGED converter

\* A call takes the caller's tuple or tied tuple when it is the first call,
\* and the result of the first call after that.
Argument(a) ==
    IF call.op = "none" THEN a \in {"tuple", "tied"}
    ELSE a = "r" /\ call.prev[1] = "none"

\* The call whose result this call takes.
previous(a) == IF a = "r" THEN <<call.op, call.a>> ELSE <<"none", "">>

\* t.set<I>(v), or operation::set<I>(t, v), with t the tuple named n.
DoSet(n, I, v) ==
    /\ n \in {"tuple", "tied"}
    /\ I \in 0..count(memory, n) - 1
    /\ v \in values_of(tuple_element_t(memory, n, I))
    /\ Written(set(memory, n, I, v), "set", n, I, v)
    /\ UNCHANGED call

\* (decltype(t)::accessor_t<I>) t = v.
DoAccessor(n, I, v) ==
    /\ n \in {"tuple", "tied"}
    /\ I \in 0..count(memory, n) - 1
    /\ v \in values_of(tuple_element_t(memory, n, I))
    /\ Written(leaf_assign(memory, n, I, v), "accessor_t", n, I, v)
    /\ UNCHANGED call

\* array[I] = v.
DoWriteArray(I, v) ==
    /\ I \in 0..ArrLen - 1
    /\ v \in double
    /\ Written(store(memory, address_of_array(I), v), "=", "array", I, v)
    /\ UNCHANGED call

\* b = v, for the structured binding numbered I.
DoWriteBinding(I, v) ==
    /\ I \in 0..Len(abcd) - 1
    /\ v \in int
    /\ Written(store(memory, abcd[I + 1], v), "=", "abcd", I, v)
    /\ UNCHANGED call

\* dst = src, for two tuples of the same arity; the call returns dst itself.
DoAssign(dst, src, order) ==
    /\ dst \in {"tuple", "tied"}
    /\ src \in {"tuple", "tied"}
    /\ dst # src
    /\ count(memory, dst) = count(memory, src)
    /\ order \in Orders(count(memory, dst))
    /\ Written(assign(memory, dst, src, order), "operator=", dst, 0, 0)
    /\ call' = [no_call EXCEPT !.op = "operator=", !.a = dst, !.b = src]

\* auto r = tuple_t(xs...).
DoTuple(xs) ==
    /\ call.op = "none"
    /\ xs \in Literals
    /\ Returned(tuple_t(deduced(xs), xs),
                [no_call EXCEPT !.op = "tuple_t", !.xs = numbers(xs)])

\* auto r = ntuple_t(xs...).
DoNTuple(xs) ==
    /\ call.op = "none"
    /\ xs \in Literals
    /\ Returned(tuple_t(ndeduced(xs), xs),
                [no_call EXCEPT !.op = "ntuple_t", !.xs = numbers(xs)])

\* auto r = concat(a, b).
DoConcat(a, b) ==
    /\ call.op = "none"
    /\ a \in {"tuple", "tied"}
    /\ b \in {"tuple", "tied"}
    /\ Returned(concat(memory, a, b),
                [no_call EXCEPT !.op = "concat", !.a = a, !.b = b,
                                !.was = memory[a] \o memory[b]])

\* auto r = prepend(a, e).
DoPrepend(a, e) ==
    /\ call.op = "none"
    /\ a \in {"tuple", "tied"}
    /\ e \in Literal
    /\ Returned(prepend(memory, a, e),
                [no_call EXCEPT !.op = "prepend", !.a = a, !.xs = <<e.v>>,
                                !.was = memory[a]])

\* auto r = append(a, e).
DoAppend(a, e) ==
    /\ call.op = "none"
    /\ a \in {"tuple", "tied"}
    /\ e \in Literal
    /\ Returned(append(memory, a, e),
                [no_call EXCEPT !.op = "append", !.a = a, !.xs = <<e.v>>,
                                !.was = memory[a]])

\* auto r = tail(a), for a non-empty tuple a.
DoTail(a) ==
    /\ Argument(a)
    /\ count(memory, a) > 0
    /\ Returned(tail(memory, a),
                [no_call EXCEPT !.op = "tail", !.a = a,
                                !.was = memory[a],
                                !.prev = previous(a)])

\* auto r = init(a), for a non-empty tuple a.
DoInit(a) ==
    /\ Argument(a)
    /\ count(memory, a) > 0
    /\ Returned(init(memory, a),
                [no_call EXCEPT !.op = "init", !.a = a,
                                !.was = memory[a],
                                !.prev = previous(a)])

\* auto r = reverse(a).
DoReverse(a) ==
    /\ Argument(a)
    /\ Returned(reverse(memory, a),
                [no_call EXCEPT !.op = "reverse", !.a = a,
                                !.was = memory[a],
                                !.prev = previous(a)])

\* a == b and a != b, for the caller's tuple a and the returned tuple b.
DoCompare(a, b) ==
    /\ a \in {"tuple", "tied"}
    /\ b = "r"
    /\ cmp' = [a |-> a, b |-> b, eq |-> operator_eq(memory, a, b),
               ne |-> operator_ne(memory, a, b)]
    /\ UNCHANGED <<array, tuple, tied, abcd, r, call, last>>
    /\ UNCHANGED <<folded, zipped, scanned, index, log, temporary, named>>
    /\ UNCHANGED converter

\* A program that calls combinators and compares what they return.
Next ==
    \/ \E xs \in Literals : DoTuple(xs)
    \/ \E xs \in Literals : DoNTuple(xs)
    \/ \E a \in Tuples, b \in Tuples : DoConcat(a, b)
    \/ \E a \in Tuples, e \in Literal : DoPrepend(a, e)
    \/ \E a \in Tuples, e \in Literal : DoAppend(a, e)
    \/ \E a \in Tuples : DoTail(a)
    \/ \E a \in Tuples : DoInit(a)
    \/ \E a \in Tuples : DoReverse(a)
    \/ \E a \in Tuples, b \in Tuples : DoCompare(a, b)

Spec == Init /\ [][Next]_vars

\* A program that writes to its tuple, its tied tuple and its array.
NextWrites ==
    \/ \E n \in Tuples, I \in 0..MaxLen + ArrLen, v \in double : DoSet(n, I, v)
    \/ \E n \in Tuples, I \in 0..MaxLen + ArrLen, v \in double :
           DoAccessor(n, I, v)
    \/ \E I \in 0..ArrLen, v \in double : DoWriteArray(I, v)

SpecWrites == Init /\ [][NextWrites]_vars

\* A program that assigns its tuple and its tied tuple to each other, and
\* writes to its array and to its structured bindings.
NextBinding ==
    \/ \E dst \in Tuples, src \in Tuples :
           \E order \in Orders(count(memory, dst)) : DoAssign(dst, src, order)
    \/ \E I \in 0..MaxLen, v \in double : DoWriteBinding(I, v)
    \/ \E I \in 0..ArrLen, v \in double : DoWriteArray(I, v)

SpecBinding == Init /\ [][NextBinding]_vars

\* A program that concatenates two of its tuples and writes to what it owns
\* while it holds the result.
NextAliased ==
    \/ \E a \in Tuples, b \in Tuples : DoConcat(a, b)
    \/ \E I \in 0..MaxLen, v \in double : DoSet("tuple", I, v)
    \/ \E I \in 0..ArrLen, v \in double : DoWriteArray(I, v)

SpecAliased == Init /\ [][NextAliased]_vars

\* The caller's state after call c, during which the functor was invoked as
\* l records, returned.
Invoked(c, l) ==
    /\ call' = c
    /\ log' = l
    /\ Kept(c)
    /\ UNCHANGED <<tied, abcd, cmp, last, index>>
    /\ UNCHANGED converter

\* auto zipped = zip(a, b), for two tuples of the same arity.
DoZip(a, b) ==
    /\ call.op = "none"
    /\ a \in {"tuple", "tied"}
    /\ b \in {"tuple", "tied"}
    /\ count(memory, a) = count(memory, b)
    /\ zipped' = zip(memory, a, b)
    /\ Invoked([no_call EXCEPT !.op = "zip", !.a = a, !.b = b,
                               !.was = memory[a] \o memory[b]], <<>>)
    /\ UNCHANGED <<r, folded, scanned, temporary>>

\* auto r = zipwith(a, b, f), for two tuples of the same arity; the language
\* chooses the order of the invocations.
DoZipWith(a, b, F) ==
    /\ call.op = "none"
    /\ a \in {"tuple", "tied"}
    /\ b \in {"tuple", "tied"}
    /\ is_arithmetic(memory, a) /\ is_arithmetic(memory, b)
    /\ count(memory, a) = count(memory, b)
    /\ F \in Functors
    /\ \E order \in Orders(count(memory, a)) :
       LET ret == zipwith(memory, a, b, F, order)
       IN  /\ r' = ret.ret
           /\ Invoked([no_call EXCEPT !.op = "zipwith", !.a = a, !.b = b,
                                      !.xs = <<F.f>>,
                                      !.was = memory[a] \o memory[b]],
                      ret.log)
    /\ UNCHANGED <<folded, zipped, scanned, temporary>>

\* auto r = apply(a, f, e), for a literal e; the language chooses the order
\* of the invocations.
DoApply(a, F, e) ==
    /\ call.op = "none"
    /\ a \in {"tuple", "tied"}
    /\ is_arithmetic(memory, a)
    /\ F \in Functors
    /\ e \in Literal
    /\ \E order \in Orders(count(memory, a)) :
       LET ret == apply(memory, a, F, e, order)
       IN  /\ r' = ret.ret
           /\ Invoked([no_call EXCEPT !.op = "apply", !.a = a,
                                      !.xs = <<F.f, e>>,
                                      !.was = memory[a]],
                      ret.log)
    /\ UNCHANGED <<folded, zipped, scanned, temporary>>

\* The absent base of a call that passes none.
no_base == [T |-> "none", at |-> 0, v |-> 0]

\* What a caller passes as the base: a literal, or nothing.
Bases == Literal \cup {no_base}

\* The temporary made from the literal e has ended its lifetime with the full
\* expression of the call: its storage holds any number of its type.
Expired(e) ==
    IF e = no_base THEN UNCHANGED temporary
    ELSE \E g \in values_of(e.T) : temporary' = [T |-> e.T, v |-> g]

\* A fold or a scan takes the caller's tuple or tied tuple of numbers when it
\* is the first call, and the concatenation when the first call made one.
Operand(a) ==
    IF call.op = "none" THEN a \in {"tuple", "tied"} /\ is_arithmetic(memory, a)
    ELSE a = "r" /\ call.op = "concat" /\ is_arithmetic(memory, a)

\* auto folded = foldl(a, f, e), or foldl(a, f) for a non-empty a.
DoFoldl(a, F, e) ==
    /\ Operand(a)
    /\ F \in Functors
    /\ e \in Bases
    /\ e = no_base => count(memory, a) > 0
    /\ LET ret == IF e = no_base THEN foldl_head(memory, a, F)
                  ELSE foldl(materialized(memory, e), a, F,
                             parameter(memory, e))
       IN  /\ folded' = [T |-> ret.ret.T, v |-> ret.ret.v]
           /\ Invoked([no_call EXCEPT !.op = "foldl", !.a = a,
                                      !.xs = <<F.f, e>>,
                                      !.was = memory[a],
                                      !.prev = previous(a)],
                      ret.log)
    /\ Expired(e)
    /\ UNCHANGED <<r, zipped, scanned>>

\* auto folded = foldr(a, f, e), or foldr(a, f) for a non-empty a.
DoFoldr(a, F, e) ==
    /\ Operand(a)
    /\ F \in Functors
    /\ e \in Bases
    /\ e = no_base => count(memory, a) > 0
    /\ LET ret == IF e = no_base THEN foldr_last(memory, a, F)
                  ELSE foldr(materialized(memory, e), a, F,
                             parameter(memory, e))
       IN  /\ folded' = [T |-> ret.ret.T, v |-> ret.ret.v]
           /\ Invoked([no_call EXCEPT !.op = "foldr", !.a = a,
                                      !.xs = <<F.f, e>>,
                                      !.was = memory[a],
                                      !.prev = previous(a)],
                      ret.log)
    /\ Expired(e)
    /\ UNCHANGED <<r, zipped, scanned>>


\* auto scanned = scanl(a, f, e), or scanl(a, f) for a non-empty a.
DoScanl(a, F, e) ==
    /\ Operand(a)
    /\ F \in Functors
    /\ e \in Bases
    /\ e = no_base => count(memory, a) > 0
    /\ LET ret == IF e = no_base THEN scanl_head(memory, a, F)
                  ELSE scanl(materialized(memory, e), a, F,
                             parameter(memory, e))
       IN  /\ scanned' = ret.ret
           /\ Invoked([no_call EXCEPT !.op = "scanl", !.a = a,
                                      !.xs = <<F.f, e>>,
                                      !.was = memory[a],
                                      !.prev = previous(a)],
                      ret.log)
    /\ Expired(e)
    /\ UNCHANGED <<r, folded, zipped>>

\* auto scanned = scanr(a, f, e), or scanr(a, f) for a non-empty a.
DoScanr(a, F, e) ==
    /\ Operand(a)
    /\ F \in Functors
    /\ e \in Bases
    /\ e = no_base => count(memory, a) > 0
    /\ LET ret == IF e = no_base THEN scanr_last(memory, a, F)
                  ELSE scanr(materialized(memory, e), a, F,
                             parameter(memory, e))
       IN  /\ scanned' = ret.ret
           /\ Invoked([no_call EXCEPT !.op = "scanr", !.a = a,
                                      !.xs = <<F.f, e>>,
                                      !.was = memory[a],
                                      !.prev = previous(a)],
                      ret.log)
    /\ Expired(e)
    /\ UNCHANGED <<r, folded, zipped>>


\* A program that makes one call of a combinator that takes a functor, or
\* zips two of its tuples.
NextFunctor ==
    \/ \E a \in Tuples, b \in Tuples : DoZip(a, b)
    \/ \E a \in Tuples, b \in Tuples, F \in Functors : DoZipWith(a, b, F)
    \/ \E a \in Tuples, F \in Functors, e \in Literal : DoApply(a, F, e)
    \/ \E a \in Tuples, b \in Tuples : DoConcat(a, b)
    \/ \E a \in Tuples, F \in Functors, e \in Bases : DoFoldl(a, F, e)
    \/ \E a \in Tuples, F \in Functors, e \in Bases : DoFoldr(a, F, e)
    \/ \E a \in Tuples, F \in Functors, e \in Bases : DoScanl(a, F, e)
    \/ \E a \in Tuples, F \in Functors, e \in Bases : DoScanr(a, F, e)

SpecFunctor == Init /\ [][NextFunctor]_vars

\* The caller's state after call c of foreach or rforeach returned done.
Visited(done, c) ==
    /\ array' = done.m.array
    /\ tuple' = done.m.tuple
    /\ index' = done.y
    /\ log' = done.log
    /\ call' = c
    /\ UNCHANGED <<tied, abcd, r, cmp, last, folded, zipped, scanned,
                   temporary, named, converter>>

\* The caller makes at most two calls of foreach and rforeach with its
\* counter.
Visitable(a) ==
    /\ a \in {"tuple", "tied"}
    /\ call.op \in {"none", "foreach", "rforeach"}
    /\ call.prev[1] = "none"

\* foreach(a, f, index).
DoForeach(a) ==
    /\ Visitable(a)
    /\ Visited(foreach(memory, a, index),
               [no_call EXCEPT !.op = "foreach", !.a = a,
                               !.prev = <<call.op, call.a>>])

\* rforeach(a, f, index).
DoRForeach(a) ==
    /\ Visitable(a)
    /\ Visited(rforeach(memory, a, index),
               [no_call EXCEPT !.op = "rforeach", !.a = a,
                               !.prev = <<call.op, call.a>>])

\* A program that visits the elements of its tuples with a functor that
\* counts its invocations.
NextForeach ==
    \/ \E a \in Tuples : DoForeach(a)
    \/ \E a \in Tuples : DoRForeach(a)

SpecForeach == Init /\ [][NextForeach]_vars

\* The ways a caller passes an extra argument of type T holding v, and the
\* ways the functor takes it.
ExtraTypes == {"int", "string"}
Passings == {"named", "temporary"}
Kinds == {"value", "reference"}

\* Memory when the call starts: T named = v, or the temporary T(v).
declared(m, passed, T, v) ==
    IF passed = "named" THEN [m EXCEPT !.named = [T |-> T, v |-> v]]
    ELSE [m EXCEPT !.temporary = [T |-> T, v |-> v]]

\* The extra argument as the callee holds it.
extra(passed, kind) ==
    [at |-> bound(passed), category |-> forward(passed), kind |-> kind]

\* The caller's state after the call c with an extra argument left memory
\* as s.m; a temporary argument has ended its lifetime.
Forwarded(s, c, passed, T, v) ==
    /\ array' = s.m.array
    /\ tuple' = s.m.tuple
    /\ named' = s.m.named
    /\ IF passed = "named" THEN temporary' = s.m.temporary
       ELSE Expired(prvalue(T, v))
    /\ log' = s.log
    /\ call' = [c EXCEPT !.xs = <<passed, T, v>>]
    /\ UNCHANGED <<tied, abcd, cmp, last, folded, zipped, scanned, index>>
    /\ UNCHANGED converter

\* auto r = apply(a, f, named), or apply(a, f, T(v)); the language chooses the
\* order of the invocations, the library what a moved-from string holds.
DoApplyForwarding(a, passed, kind, T, v) ==
    /\ call.op = "none"
    /\ a \in {"tuple", "tied"}
    /\ passed \in Passings /\ kind \in Kinds
    /\ T \in ExtraTypes /\ v \in int
    /\ \E order \in Orders(count(memory, a)), g \in values_of(T) :
       LET s == apply_forwarding(declared(memory, passed, T, v), a,
                                 extra(passed, kind), order, g)
       IN  /\ r' = s.ret
           /\ Forwarded(s, [no_call EXCEPT !.op = "apply", !.a = a,
                                           !.b = kind, !.was = memory[a]],
                        passed, T, v)

\* foreach(a, f, named), or foreach(a, f, T(v)).
DoForeachForwarding(a, passed, kind, T, v) ==
    /\ call.op = "none"
    /\ a \in {"tuple", "tied"}
    /\ passed \in Passings /\ kind \in Kinds
    /\ T \in ExtraTypes /\ v \in int
    /\ \E g \in values_of(T) :
       LET s == foreach_forwarding(declared(memory, passed, T, v), a,
                                   extra(passed, kind), g)
       IN  Forwarded(s, [no_call EXCEPT !.op = "foreach", !.a = a,
                                        !.b = kind, !.was = memory[a]],
                     passed, T, v)
    /\ UNCHANGED r

\* rforeach(a, f, named), or rforeach(a, f, T(v)).
DoRForeachForwarding(a, passed, kind, T, v) ==
    /\ call.op = "none"
    /\ a \in {"tuple", "tied"}
    /\ passed \in Passings /\ kind \in Kinds
    /\ T \in ExtraTypes /\ v \in int
    /\ \E g \in values_of(T) :
       LET s == rforeach_forwarding(declared(memory, passed, T, v), a,
                                    extra(passed, kind), g)
       IN  Forwarded(s, [no_call EXCEPT !.op = "rforeach", !.a = a,
                                        !.b = kind, !.was = memory[a]],
                     passed, T, v)
    /\ UNCHANGED r

\* A program that makes one call of apply, foreach or rforeach with an extra
\* argument.
NextForwarding ==
    \/ \E a \in Tuples, passed \in Passings, kind \in Kinds,
          T \in ExtraTypes, v \in int :
          DoApplyForwarding(a, passed, kind, T, v)
    \/ \E a \in Tuples, passed \in Passings, kind \in Kinds,
          T \in ExtraTypes, v \in int :
          DoForeachForwarding(a, passed, kind, T, v)
    \/ \E a \in Tuples, passed \in Passings, kind \in Kinds,
          T \in ExtraTypes, v \in int :
          DoRForeachForwarding(a, passed, kind, T, v)

SpecForwarding == Init /\ [][NextForwarding]_vars

\* auto&& c = convert(a), or auto&& c = convert(std::move(a)).
DoConvert(a, category) ==
    /\ call.op = "none"
    /\ a \in {"tuple", "tied"}
    /\ category \in {"lvalue", "xvalue"}
    /\ converter' = convert(memory, a, category)
    /\ call' = [no_call EXCEPT !.op = "convert", !.a = a, !.b = category,
                               !.xs = contents(memory, a)]
    /\ UNCHANGED <<array, tuple, tied, abcd, r, cmp, last, folded, zipped,
                   scanned, index, log, temporary, named>>

\* U r = std::move(c).
DoConversion ==
    /\ call.op = "convert"
    /\ LET u == operator_U(memory, converter)
       IN  /\ r' = u.ret
           /\ log' = u.log
    /\ call' = [call EXCEPT !.op = "operator U"]
    /\ UNCHANGED <<array, tuple, tied, abcd, cmp, last, folded, zipped,
                   scanned, index, temporary, named, converter>>

\* tuple.set<I>(v), once, while the wrapper waits to be converted.
DoSetWrapped(I, v) ==
    /\ call.op = "convert"
    /\ last.op = "none"
    /\ DoSet("tuple", I, v)
    /\ UNCHANGED converter

\* array[I] = v, once, while the wrapper waits to be converted.
DoWriteArrayWrapped(I, v) ==
    /\ call.op = "convert"
    /\ last.op = "none"
    /\ DoWriteArray(I, v)
    /\ UNCHANGED converter

\* A program that wraps one of its tuples for a conversion, writes to what it
\* owns, and converts.
NextConvert ==
    \/ \E a \in Tuples, category \in {"lvalue", "xvalue"} :
          DoConvert(a, category)
    \/ DoConversion
    \/ \E I \in 0..MaxLen, v \in double : DoSetWrapped(I, v)
    \/ \E I \in 0..ArrLen, v \in double : DoWriteArrayWrapped(I, v)

SpecConvert == Init /\ [][NextConvert]_vars


\* The caller's state after the construction c of the tuple t left memory as
\* m and the reads l.
Constructed(t, m, l, c) ==
    /\ r' = t
    /\ array' = m.array
    /\ tuple' = m.tuple
    /\ named' = m.named
    /\ log' = l
    /\ call' = c
    /\ cmp' = no_cmp
    /\ UNCHANGED <<tied, abcd, last, folded, zipped, scanned, index>>
    /\ UNCHANGED <<temporary, converter>>

\* ntuple_t<double, N> r(array), or ntuple_t<double, N> r(std::move(array)).
DoNTupleArray(category) ==
    /\ call.op = "none"
    /\ category \in {"lvalue", "xvalue"}
    /\ LET moved == ntuple_t_moving(memory, "double", ArrLen, 0)
           c == [no_call EXCEPT !.op = "ntuple_t(array)", !.b = category,
                                !.xs = array]
       IN  IF category = "lvalue"
           THEN Constructed(ntuple_t(memory, "double", ArrLen), memory,
                            subscripts(memory, ArrLen), c)
           ELSE Constructed(moved.ret, moved.m,
                            subscripts(memory, ArrLen), c)

\* The element types a tuple constructed from the tuple src may declare.
Declarable(src) ==
    {Ts \in [1..count(memory, src) -> {"int", "double", "string"}] :
        \A k \in 1..Len(Ts) :
            is_convertible(tuple_element_t(memory, src, k - 1), Ts[k])}

\* T named = v; auto tied = tie(named).
DoTie(T, v) ==
    /\ call.op = "none"
    /\ tied = tie(memory)
    /\ T \in ExtraTypes
    /\ v \in values_of(T)
    /\ named' = [T |-> T, v |-> v]
    /\ tied' = tie_refs([memory EXCEPT !.named = [T |-> T, v |-> v]])
    /\ UNCHANGED <<array, tuple, abcd, r, call, cmp, last, folded, zipped>>
    /\ UNCHANGED <<scanned, index, log, temporary, converter>>

\* tuple_t<Ts...> r(src), or tuple_t<Ts...> r(std::move(src)); the library
\* chooses what a moved-from string holds.
DoConstruct(src, category) ==
    /\ call.op = "none"
    /\ src \in {"tuple", "tied"}
    /\ \E Ts \in Declarable(src), g \in int :
         LET built == tuple_t_from(memory, Ts, src, category, g)
         IN  Constructed(built.ret, built.m, log,
                 [no_call EXCEPT
                      !.op = IF category = "lvalue"
                             THEN "tuple_t(const tuple_t&)"
                             ELSE "tuple_t(tuple_t&&)",
                      !.a = "r", !.b = src, !.xs = Ts, !.was = memory])

\* dst = src, or dst = std::move(src), for two tuples of the same arity whose
\* elements convert; the language chooses the order of the leaf assignments,
\* the library what a moved-from string holds.
DoAssignFrom(dst, src, category) ==
    /\ src \in {"tuple", "tied"}
    /\ IF dst = "r"
       THEN call.op \in {"tuple_t(const tuple_t&)", "tuple_t(tuple_t&&)"}
       ELSE call.op = "none" /\ dst \in {"tuple", "tied"}
    /\ dst # src
    /\ count(memory, dst) = count(memory, src)
    /\ \A I \in 0..count(memory, src) - 1 :
           is_convertible(tuple_element_t(memory, src, I),
                          tuple_element_t(memory, dst, I))
    /\ \E order \in Orders(count(memory, dst)), g \in int :
         LET m == assign_from(memory, dst, src, order, category, g)
         IN  Constructed(m.r, m, log,
                 [no_call EXCEPT
                      !.op = IF category = "lvalue"
                             THEN "operator=(const tuple_t&)"
                             ELSE "operator=(tuple_t&&)",
                      !.a = dst, !.b = src, !.was = memory])

\* A program that constructs a tuple from its array or from one of its
\* tuples, or assigns one of its tuples to another.
NextConstruct ==
    \/ \E category \in {"lvalue", "xvalue"} : DoNTupleArray(category)
    \/ \E T \in ExtraTypes, v \in int : DoTie(T, v)
    \/ \E src \in Tuples, category \in {"lvalue", "xvalue"} :
          DoConstruct(src, category)
    \/ \E dst \in Tuples, src \in Tuples, category \in {"lvalue", "xvalue"} :
          DoAssignFrom(dst, src, category)

SpecConstruct == Init /\ [][NextConstruct]_vars


\* The argument lists of up to MaxLen std::string values.
Strings ==
    UNION {[1..n -> {prvalue("string", v) : v \in int}] : n \in 1..MaxLen}

\* auto tuple = tuple_t(std::string(...), ...): the caller's tuple owns
\* strings.
DoTupleOfStrings(xs) ==
    /\ call.op = "none"
    /\ last.op = "none"
    /\ is_arithmetic(memory, "tuple")
    /\ xs \in Strings
    /\ tuple' = tuple_t(deduced(xs), xs)
    /\ abcd' = structured_binding(
                   [memory EXCEPT !.tuple = tuple_t(deduced(xs), xs)],
                   "tuple")
    /\ UNCHANGED <<array, tied, r, call, cmp, last, folded, zipped, scanned>>
    /\ UNCHANGED <<index, log, temporary, named, converter>>

\* auto folded = forward(a, f), for a tuple of two numbers.
DoForward(a, F) ==
    /\ call.op = "none"
    /\ a \in {"tuple", "tied"}
    /\ is_arithmetic(memory, a)
    /\ count(memory, a) = 2
    /\ F \in Functors
    /\ LET ret == operation_forward(memory, a, F)
       IN  /\ folded' = [T |-> ret.ret.T, v |-> ret.ret.v]
           /\ Invoked([no_call EXCEPT !.op = "forward", !.a = a,
                                      !.xs = <<F.f>>, !.was = memory[a]],
                      ret.log)
    /\ UNCHANGED <<r, zipped, scanned, temporary>>

\* A program that declares a tuple of numbers or of strings and makes one
\* call of the copying form of a combinator.
NextCopying ==
    \/ \E xs \in Strings : DoTupleOfStrings(xs)
    \/ \E a \in Tuples, b \in Tuples : DoConcat(a, b)
    \/ \E a \in Tuples, e \in Literal : DoPrepend(a, e)
    \/ \E a \in Tuples, e \in Literal : DoAppend(a, e)
    \/ \E a \in Tuples : DoTail(a)
    \/ \E a \in Tuples : DoInit(a)
    \/ \E a \in Tuples : DoReverse(a)
    \/ \E a \in Tuples, b \in Tuples : DoZip(a, b)
    \/ \E a \in Tuples, b \in Tuples, F \in Functors : DoZipWith(a, b, F)
    \/ \E a \in Tuples, F \in Functors, e \in Literal : DoApply(a, F, e)
    \/ \E a \in Tuples, F \in Functors : DoForward(a, F)
    \/ \E a \in Tuples, F \in Functors, e \in Bases : DoFoldl(a, F, e)
    \/ \E a \in Tuples, F \in Functors, e \in Bases : DoFoldr(a, F, e)
    \/ \E a \in Tuples, F \in Functors, e \in Bases : DoScanl(a, F, e)
    \/ \E a \in Tuples, F \in Functors, e \in Bases : DoScanr(a, F, e)

SpecCopying == Init /\ [][NextCopying]_vars


\* The tuple r that the caller constructed goes out of scope.
DoDestroy ==
    /\ call.op = "tuple_t"
    /\ log' = destructor(memory, "r")
    /\ r' = <<>>
    /\ call' = [call EXCEPT !.op = "~tuple_t", !.was = r]
    /\ UNCHANGED <<array, tuple, tied, abcd, cmp, last, folded, zipped>>
    /\ UNCHANGED <<scanned, index, temporary, named, converter>>

\* A program that constructs a tuple and lets it go out of scope.
NextDestroy ==
    \/ \E xs \in Literals : DoTuple(xs)
    \/ DoDestroy

SpecDestroy == Init /\ [][NextDestroy]_vars


\* The forms of append and prepend: the copying one takes the caller's tuple
\* as const tuple_t&, the moving one a temporary tuple as tuple_t&&.
Forms == {"const tuple_t&", "tuple_t&&"}

\* The element as the caller passes it: the named variable, or a temporary.
passed_element(m, passed, T, v) ==
    IF passed = "named" THEN lvalue(m, address_of_named) ELSE prvalue(T, v)

\* The caller's state after the call c of append or prepend with the element
\* T(v), named or temporary, returned t.
Joined(t, c, passed, T, v) ==
    /\ r' = t
    /\ call' = [c EXCEPT !.xs = <<passed, T, v>>]
    /\ named' = declared(memory, passed, T, v).named
    /\ IF passed = "named" THEN UNCHANGED temporary
       ELSE Expired(prvalue(T, v))
    /\ UNCHANGED <<array, tuple, tied, abcd, cmp, last, folded, zipped>>
    /\ UNCHANGED <<scanned, index, log, converter>>

\* T e = v; auto r = prepend(tuple, e), or prepend(tuple_t(tuple), e) with a
\* temporary copy of the tuple; or the same with the temporary T(v) for e.
DoPrependElement(form, passed, T, v) ==
    /\ call.op = "none"
    /\ form \in Forms /\ passed \in Passings
    /\ T \in ExtraTypes /\ v \in int
    /\ LET m == declared(memory, passed, T, v)
           e == passed_element(m, passed, T, v)
       IN  Joined(IF form = "tuple_t&&"
                  THEN prepend_moving(passing(m, m.tuple), "r", e)
                  ELSE prepend(m, "tuple", e),
                  [no_call EXCEPT !.op = "prepend", !.a = "tuple",
                                  !.b = form, !.was = tuple],
                  passed, T, v)

\* T e = v; auto r = append(tuple, e), or append(tuple_t(tuple), e) with a
\* temporary copy of the tuple; or the same with the temporary T(v) for e.
DoAppendElement(form, passed, T, v) ==
    /\ call.op = "none"
    /\ form \in Forms /\ passed \in Passings
    /\ T \in ExtraTypes /\ v \in int
    /\ LET m == declared(memory, passed, T, v)
           e == passed_element(m, passed, T, v)
       IN  Joined(IF form = "tuple_t&&"
                  THEN append_moving(passing(m, m.tuple), "r", e)
                  ELSE append(m, "tuple", e),
                  [no_call EXCEPT !.op = "append", !.a = "tuple",
                                  !.b = form, !.was = tuple],
                  passed, T, v)

\* e = v, once, after the call returned.
DoWriteNamed(v) ==
    /\ \/ call.op \in {"prepend", "append"} /\ call.xs[1] = "named"
       \/ call.op \in {"scanl", "scanr"} /\ call.xs[2].at = address_of_named
    /\ last.op = "none"
    /\ v \in int
    /\ named' = [named EXCEPT !.v = v]
    /\ last' = [op |-> "e =", n |-> "named", I |-> 0, v |-> v]
    /\ UNCHANGED <<array, tuple, tied, abcd, r, call, cmp, folded, zipped>>
    /\ UNCHANGED <<scanned, index, log, temporary, converter>>

\* A program that appends or prepends an element to its tuple and writes to
\* the variable it passed.
NextElement ==
    \/ \E form \in Forms, passed \in Passings, T \in ExtraTypes, v \in int :
          DoPrependElement(form, passed, T, v)
    \/ \E form \in Forms, passed \in Passings, T \in ExtraTypes, v \in int :
          DoAppendElement(form, passed, T, v)
    \/ \E v \in int : DoWriteNamed(v)

SpecElement == Init /\ [][NextElement]_vars


\* The caller's state after the scan c of the tuple a, with the named
\* variable int base = v as the base, returned s.
ScannedNamed(s, c, v) ==
    /\ scanned' = s.ret
    /\ log' = s.log
    /\ call' = c
    /\ named' = [T |-> "int", v |-> v]
    /\ UNCHANGED <<array, tuple, tied, abcd, r, cmp, last, folded, zipped>>
    /\ UNCHANGED <<index, temporary, converter>>

\* int base = v; auto scanned = scanl(a, f, base).
DoScanlNamed(a, F, v) ==
    /\ call.op = "none"
    /\ a \in {"tuple", "tied"} /\ is_arithmetic(memory, a)
    /\ F \in Functors
    /\ v \in int
    /\ LET m == declared(memory, "named", "int", v)
           base == lvalue(m, address_of_named)
       IN  ScannedNamed(scanl(m, a, F, base),
                        [no_call EXCEPT !.op = "scanl", !.a = a,
                                        !.xs = <<F.f, base>>,
                                        !.was = memory[a]],
                        v)

\* int base = v; auto scanned = scanr(a, f, base).
DoScanrNamed(a, F, v) ==
    /\ call.op = "none"
    /\ a \in {"tuple", "tied"} /\ is_arithmetic(memory, a)
    /\ F \in Functors
    /\ v \in int
    /\ LET m == declared(memory, "named", "int", v)
           base == lvalue(m, address_of_named)
       IN  ScannedNamed(scanr(m, a, F, base),
                        [no_call EXCEPT !.op = "scanr", !.a = a,
                                        !.xs = <<F.f, base>>,
                                        !.was = memory[a]],
                        v)

\* tuple.set<I>(v), once, after the scan returned.
DoSetScanned(I, v) ==
    /\ call.op \in {"scanl", "scanr"}
    /\ last.op = "none"
    /\ DoSet("tuple", I, v)

\* A program that scans one of its tuples and writes to the tuple or to the
\* base afterwards.
NextScanned ==
    \/ \E a \in Tuples, F \in Functors, e \in Bases : DoScanl(a, F, e)
    \/ \E a \in Tuples, F \in Functors, e \in Bases : DoScanr(a, F, e)
    \/ \E a \in Tuples, F \in Functors, v \in int : DoScanlNamed(a, F, v)
    \/ \E a \in Tuples, F \in Functors, v \in int : DoScanrNamed(a, F, v)
    \/ \E I \in 0..MaxLen, v \in double : DoSetScanned(I, v)
    \/ \E v \in int : DoWriteNamed(v)

SpecScanned == Init /\ [][NextScanned]_vars

(***************************************************************************)
(* Properties.                                                             *)
(***************************************************************************)

\* The positions of the tuple named n.
positions(n) == 0..count(memory, n) - 1

\* C1: a tuple_t or an ntuple_t built from the values v0 .. v(N-1) has arity
\* N, and get<i> of it returns v_i for every position i.
C1_ConstructedPositionally ==
    call.op \in {"tuple_t", "ntuple_t"} =>
        /\ count(memory, "r") = Len(call.xs)
        /\ \A I \in positions("r") : get(memory, "r", I).v = call.xs[I + 1]

\* A tuple of the largest arity was built from values that differ.
C1_Witness ==
    /\ call.op \in {"tuple_t", "ntuple_t"}
    /\ Len(call.xs) = MaxLen
    /\ call.xs[1] # call.xs[MaxLen]
    /\ get(memory, "r", 0).v = call.xs[1]
    /\ get(memory, "r", MaxLen - 1).v = call.xs[MaxLen]

\* C2: set<i>(v), and an assignment of v through accessor_t<i>, leave v at
\* position i, change no other position, and keep the arity of the tuple.
C2_SetWritesOnePosition ==
    [][last'.op \in {"set", "accessor_t"} =>
           /\ count(memory', last'.n) = count(memory, last'.n)
           /\ read(memory', last'.n, last'.I) = last'.v
           /\ \A J \in positions(last'.n) \ {last'.I} :
                  read(memory', last'.n, J) = read(memory, last'.n, J)]_vars

\* The last position of the tuple was set to a value that its first
\* position does not hold.
C2_Witness ==
    /\ last.op \in {"set", "accessor_t"}
    /\ last.n = "tuple"
    /\ last.I = MaxLen - 1
    /\ last.v # 0
    /\ read(memory, "tuple", MaxLen - 1) = last.v
    /\ read(memory, "tuple", 0) # last.v

\* The same positions of a and b hold equal values.
same_elements(a, b) ==
    \A I \in positions(a) \cap positions(b) :
        read(memory, a, I) = read(memory, b, I)

\* C3: a == b holds exactly when a and b have the same arity and equal
\* values at every position; a != b is its negation.
C3_Equality ==
    cmp.a # "" =>
        /\ cmp.eq <=> /\ count(memory, cmp.a) = count(memory, cmp.b)
                      /\ same_elements(cmp.a, cmp.b)
        /\ count(memory, cmp.a) # count(memory, cmp.b) => ~cmp.eq
        /\ cmp.ne <=> ~cmp.eq

\* Two tuples of the same arity that differ at their last position only
\* were compared.
C3_Witness ==
    /\ cmp.a # ""
    /\ ~cmp.eq
    /\ cmp.ne
    /\ count(memory, cmp.a) = MaxLen
    /\ count(memory, cmp.b) = MaxLen
    /\ \A I \in 0..MaxLen - 2 : read(memory, cmp.a, I) = read(memory, cmp.b, I)

\* C4: the references bound by auto& [a, b, c, d] = tuple read the values
\* of the array once tuple = tie(array) was executed, and a value written
\* through one of them is the value the tuple holds at its position.
C4_StructuredBinding ==
    [][/\ last'.op = "operator=" /\ last'.n = "tuple" =>
              \A I \in 0..ArrLen - 1 :
                  /\ load(memory', abcd[I + 1])
                         = implicit_conversion("int", array[I + 1])
                  /\ array[I + 1] \in int =>
                         load(memory', abcd[I + 1]) = array[I + 1]
       /\ last'.op = "=" /\ last'.n = "abcd" =>
              /\ read(memory', "tuple", last'.I) = last'.v
              /\ \A J \in positions("tuple") \ {last'.I} :
                     read(memory', "tuple", J) = read(memory, "tuple", J)
              /\ array' = array]_vars

\* A reference was written after the tied array was assigned to the tuple:
\* the tuple holds the written value at that position and the value of the
\* array at another.
C4_Witness ==
    /\ call.op = "operator="
    /\ call.a = "tuple"
    /\ last.op = "="
    /\ last.n = "abcd"
    /\ load(memory, abcd[last.I + 1]) = last.v
    /\ last.v # array[last.I + 1]
    /\ \E J \in positions("tuple") :
           /\ load(memory, abcd[J + 1]) = array[J + 1]
           /\ array[J + 1] # 0

C6_ConcatPositions ==
    call.op = "concat" =>
        /\ count(memory, "r") = count(memory, call.a) + count(memory, call.b)
        /\ \A I \in positions("r") :
               read(memory, "r", I) =
                   IF I < count(memory, call.a)
                   THEN read(memory, call.a, I)
                   ELSE read(memory, call.b, I - count(memory, call.a))

\* A tuple of the largest arity was concatenated with the tied array, and
\* the two ends of the result differ.
C6_Witness ==
    /\ call.op = "concat"
    /\ call.a = "tuple"
    /\ call.b = "tied"
    /\ count(memory, "tuple") = MaxLen
    /\ count(memory, "r") = MaxLen + ArrLen
    /\ read(memory, "r", 0) # read(memory, "r", MaxLen + ArrLen - 1)

\* C7: concat keeps a reference element a reference to the same object, so
\* that position reads the current value of the object; a position copied
\* from a value element keeps the value the element had at the call.
C7_ConcatKeepsReferences ==
    call.op = "concat" =>
        /\ \A k \in 1..Len(call.was) :
               IF is_reference(call.was[k].T)
               THEN /\ r[k] = call.was[k]
                    /\ read(memory, "r", k - 1) = load(memory, r[k].m_value)
               ELSE read(memory, "r", k - 1) = call.was[k].m_value
        /\ call.b = "tied" =>
               \A J \in 0..ArrLen - 1 :
                   read(memory, "r", Len(r) - ArrLen + J) = array[J + 1]

\* After concat(tuple, tied) the tuple was set and then the array written:
\* the result reads the array as it is now and the tuple as it was.
C7_Witness ==
    /\ call.op = "concat"
    /\ call.a = "tuple"
    /\ call.b = "tied"
    /\ last.op = "="
    /\ last.n = "array"
    /\ count(memory, "tuple") = MaxLen
    /\ \E I \in positions("tuple") :
           /\ read(memory, "tuple", I) # call.was[I + 1].m_value
           /\ read(memory, "r", I) = call.was[I + 1].m_value
    /\ array[1] > array[2]
    /\ read(memory, "r", MaxLen) = array[1]

\* C8: tail(prepend(t, e)) == t and init(append(t, e)) == t, for every
\* tuple t and every element e.
C8_RoundTrip ==
    /\ call.op = "tail" /\ call.prev[1] = "prepend" =>
           /\ operator_eq(memory, "r", call.prev[2])
           /\ contents(memory, "r") = contents(memory, call.prev[2])
    /\ call.op = "init" /\ call.prev[1] = "append" =>
           /\ operator_eq(memory, "r", call.prev[2])
           /\ contents(memory, "r") = contents(memory, call.prev[2])

\* The tail was taken of a tuple of the largest arity with an element
\* prepended, whose first position differs from that of the tuple.
C8_Witness ==
    /\ call.op = "tail"
    /\ call.prev = <<"prepend", "tuple">>
    /\ count(memory, "tuple") = MaxLen
    /\ leaf_read(memory, call.was[1]) # read(memory, "tuple", 0)
    /\ operator_eq(memory, "r", "tuple")

\* C9: append(t, e) has one position more than t, holds the elements of t
\* at the positions of t and e at the last; prepend(t, e) holds e at
\* position 0 and element i of t at position i + 1.
C9_AppendPrepend ==
    /\ call.op = "append" =>
           /\ count(memory, "r") = count(memory, call.a) + 1
           /\ \A I \in positions(call.a) :
                  read(memory, "r", I) = read(memory, call.a, I)
           /\ read(memory, "r", count(memory, call.a)) = call.xs[1]
    /\ call.op = "prepend" =>
           /\ count(memory, "r") = count(memory, call.a) + 1
           /\ \A I \in positions(call.a) :
                  read(memory, "r", I + 1) = read(memory, call.a, I)
           /\ read(memory, "r", 0) = call.xs[1]

\* An element was appended to a tuple of the largest arity that holds
\* another value at each of its ends.
C9_Witness ==
    /\ call.op = "append"
    /\ call.a = "tuple"
    /\ count(memory, "tuple") = MaxLen
    /\ call.xs[1] # read(memory, "tuple", 0)
    /\ call.xs[1] # read(memory, "tuple", MaxLen - 1)
    /\ read(memory, "r", MaxLen) = call.xs[1]

\* C10: reverse(t) has the arity N of t and holds at position i the element
\* t holds at position N - 1 - i; reverse(reverse(t)) == t.
C10_Reverse ==
    /\ call.op = "reverse" =>
           /\ count(memory, "r") = Len(call.was)
           /\ \A I \in positions("r") :
                  read(memory, "r", I)
                      = leaf_read(memory, call.was[Len(call.was) - 1 - I + 1])
    /\ call.op = "reverse" /\ call.prev[1] = "reverse" =>
           /\ operator_eq(memory, "r", call.prev[2])
           /\ contents(memory, "r") = contents(memory, call.prev[2])

\* A tuple of the largest arity whose ends differ was reversed twice.
C10_Witness ==
    /\ call.op = "reverse"
    /\ call.prev = <<"reverse", "tuple">>
    /\ count(memory, "tuple") = MaxLen
    /\ read(memory, "tuple", 0) # read(memory, "tuple", MaxLen - 1)
    /\ read(memory, "r", 0) = read(memory, "tuple", 0)

\* C11: tail(t) of a non-empty tuple t of arity N has arity N - 1 and holds
\* at position i what t holds at position i + 1; init(t) has arity N - 1 and
\* holds at position i what t holds at position i.
C11_TailInit ==
    /\ call.op = "tail" =>
           /\ Len(call.was) > 0
           /\ count(memory, "r") = Len(call.was) - 1
           /\ \A I \in positions("r") :
                  read(memory, "r", I) = leaf_read(memory, call.was[I + 2])
    /\ call.op = "init" =>
           /\ Len(call.was) > 0
           /\ count(memory, "r") = Len(call.was) - 1
           /\ \A I \in positions("r") :
                  read(memory, "r", I) = leaf_read(memory, call.was[I + 1])

\* The init was taken of a tuple of the largest arity whose ends differ.
C11_Witness ==
    /\ call.op = "init"
    /\ call.a = "tuple"
    /\ count(memory, "tuple") = MaxLen
    /\ count(memory, "r") = MaxLen - 1
    /\ read(memory, "tuple", 0) # read(memory, "tuple", MaxLen - 1)
    /\ read(memory, "r", 0) = read(memory, "tuple", 0)


\* C12: for two tuples a and b of equal arity N, zip(a, b) is a tuple of N
\* pairs whose pair i has first() equal to a's element i and second() equal to
\* b's element i, so that the first()s collected give a and the second()s b.
C12_Zip ==
    call.op = "zip" =>
        LET N == Len(call.was) \div 2
        IN  /\ Len(zipped) = N
            /\ \A i \in 1..N :
                   /\ Len(zipped[i]) = 2
                   /\ first(memory, zipped[i]) = leaf_read(memory, call.was[i])
                   /\ second(memory, zipped[i])
                          = leaf_read(memory, call.was[N + i])
            /\ [i \in 1..N |-> first(memory, zipped[i])]
                   = contents(memory, call.a)
            /\ [i \in 1..N |-> second(memory, zipped[i])]
                   = contents(memory, call.b)

\* Two different tuples of the largest arity were zipped, and some pair holds
\* two different numbers.
C12_Witness ==
    /\ call.op = "zip"
    /\ call.a # call.b
    /\ Len(zipped) = MaxLen
    /\ \E i \in 1..Len(zipped) :
           first(memory, zipped[i]) # second(memory, zipped[i])


\* The argument that a functor receives from a leaf copied out of a tuple.
argument(m, leaf) == prvalue(remove_reference(leaf.T), leaf_read(m, leaf))

\* C13: for two tuples a and b of equal arity N and a binary functor f,
\* zipwith(a, b, f) is a tuple of arity N whose element i is f(a_i, b_i), with
\* a's element as the first argument and b's as the second.
C13_ZipWith ==
    call.op = "zipwith" =>
        LET N == Len(call.was) \div 2
        IN  /\ count(memory, "r") = N
            /\ \A I \in positions("r") :
                   read(memory, "r", I)
                       = operator_call(call.xs[1],
                                       argument(memory, call.was[I + 1]),
                                       argument(memory, call.was[N + I + 1])).v

\* Two tuples of the largest arity were combined with a functor for which the
\* order of the arguments matters at some position.
C13_Witness ==
    /\ call.op = "zipwith"
    /\ count(memory, "r") = MaxLen
    /\ \E I \in positions("r") :
           read(memory, "r", I)
               # operator_call(call.xs[1],
                               argument(memory, call.was[MaxLen + I + 1]),
                               argument(memory, call.was[I + 1])).v

\* C14: apply(t, f, args...) is a tuple of the arity of t whose element i is
\* f(t_i, args...) at every position i, whatever the order in which the calls
\* are evaluated.
C14_Apply ==
    call.op = "apply" =>
        /\ count(memory, "r") = Len(call.was)
        /\ Len(log) = Len(call.was)
        /\ \A I \in positions("r") :
               read(memory, "r", I)
                   = operator_call(call.xs[1],
                                   argument(memory, call.was[I + 1]),
                                   call.xs[2]).v

\* The functor was applied to a tuple of the largest arity, the call for the
\* last position was evaluated first, and two positions got different results.
C14_Witness ==
    /\ call.op = "apply"
    /\ count(memory, "r") = MaxLen
    /\ Len(log) = MaxLen
    /\ log[1].I = MaxLen - 1
    /\ \E I, J \in positions("r") : read(memory, "r", I) # read(memory, "r", J)


\* The arguments that a functor receives from the leaves copied out of a
\* tuple, in positional order.
arguments(m, leaves) == [k \in 1..Len(leaves) |-> argument(m, leaves[k])]

\* f(...f(f(acc, es[1]), es[2])..., es[N]).
RECURSIVE left_associative(_, _, _)
left_associative(f, acc, es) ==
    IF es = <<>> THEN acc
    ELSE left_associative(f, operator_call(f, acc, Head(es)), Tail(es))

\* f(es[1], f(es[2], ... f(es[N], acc))).
RECURSIVE right_associative(_, _, _)
right_associative(f, es, acc) ==
    IF es = <<>> THEN acc
    ELSE operator_call(f, Head(es), right_associative(f, Tail(es), acc))

\* C15: foldl is left-associative: foldl(t, f, base) is
\* f(...f(f(base, e0), e1)..., e(N-1)), and base for the empty tuple; without a
\* base e0 is the seed, so foldl(t, f) is f(...f(f(e0, e1), e2)..., e(N-1)).
C15_Foldl ==
    call.op = "foldl" =>
        LET f == call.xs[1]
            base == call.xs[2]
            es == arguments(memory, call.was)
        IN  /\ base # no_base =>
                   folded.v = left_associative(f, base, es).v
            /\ base # no_base /\ es = <<>> => folded.v = base.v
            /\ base = no_base =>
                   folded.v = left_associative(f, Head(es), Tail(es)).v

\* A left fold without base of at least three elements, whose
\* right-associative reading is another number.
C15_Witness ==
    /\ call.op = "foldl"
    /\ call.xs[2] = no_base
    /\ Len(call.was) >= 3
    /\ LET es == arguments(memory, call.was)
       IN  folded.v # right_associative(call.xs[1],
                                        SubSeq(es, 1, Len(es) - 1),
                                        es[Len(es)]).v

\* C16: foldr is right-associative: foldr(t, f, base) is
\* f(e0, f(e1, ... f(e(N-1), base))), every element being the functor's first
\* argument and the accumulator its second; without a base the last element
\* is the seed, so foldr(t, f) is f(e0, f(e1, ... f(e(N-2), e(N-1)))).
C16_Foldr ==
    call.op = "foldr" =>
        LET f == call.xs[1]
            base == call.xs[2]
            es == arguments(memory, call.was)
        IN  /\ base # no_base =>
                   folded.v = right_associative(f, es, base).v
            /\ base = no_base =>
                   folded.v = right_associative(
                                  f, SubSeq(es, 1, Len(es) - 1), es[Len(es)]).v
            /\ \A k \in 1..Len(log) :
                   log[k].x = es[log[k].I + 1].v

\* A right fold with a base of at least two elements, whose left-associative
\* reading is another number.
C16_Witness ==
    /\ call.op = "foldr"
    /\ call.xs[2] # no_base
    /\ Len(call.was) >= 2
    /\ LET es == arguments(memory, call.was)
       IN  folded.v # left_associative(call.xs[1], call.xs[2], es).v


\* The numbers read from every position of the scanned tuple, in order.
accumulators == [k \in 1..Len(scanned) |-> leaf_read(memory, scanned[k])]

\* The caller's functor named f, as it is passed to a combinator.
functor(f) == [f |-> f, flipped |-> FALSE]

\* C17: scanl(t, f) without base, on a tuple of arity N >= 1, is a tuple of
\* arity N whose element 0 is e0 and whose element k >= 1 is
\* f(element k-1 of the result, e_k), the foldl of the first k+1 elements of
\* t; its last element is foldl(t, f).
C17_Scanl ==
    call.op = "scanl" /\ call.xs[2] = no_base =>
        LET f == call.xs[1]
            es == arguments(memory, call.was)
            N == Len(es)
        IN  /\ N >= 1
            /\ Len(scanned) = N
            /\ accumulators[1] = es[1].v
            /\ \A k \in 2..N :
                   /\ accumulators[k]
                          = operator_call(f, argument(memory, scanned[k - 1]),
                                          es[k]).v
                   /\ accumulators[k]
                          = left_associative(f, es[1], SubSeq(es, 2, k)).v
            /\ accumulators[N] = foldl_head(memory, call.a, functor(f)).ret.v

\* A scan from the left without base of at least three elements, whose last
\* accumulator is not what the right-associative reading gives.
C17_Witness ==
    /\ call.op = "scanl"
    /\ call.xs[2] = no_base
    /\ Len(scanned) >= 3
    /\ LET es == arguments(memory, call.was)
       IN  accumulators[Len(scanned)]
               # right_associative(call.xs[1], SubSeq(es, 1, Len(es) - 1),
                                   es[Len(es)]).v

\* C18: scanr(t, f) without base, on a tuple of arity N >= 1, is a tuple of
\* arity N in the order of the elements: its last element is e(N-1), its
\* element i < N-1 is f(e_i, element i+1 of the result), the foldr of the
\* elements i..N-1 of t; its first element is foldr(t, f).
C18_Scanr ==
    call.op = "scanr" /\ call.xs[2] = no_base =>
        LET f == call.xs[1]
            es == arguments(memory, call.was)
            N == Len(es)
        IN  /\ N >= 1
            /\ Len(scanned) = N
            /\ accumulators[N] = es[N].v
            /\ \A i \in 1..N - 1 :
                   /\ accumulators[i]
                          = operator_call(f, es[i],
                                          argument(memory, scanned[i + 1])).v
                   /\ accumulators[i]
                          = right_associative(f, SubSeq(es, i, N - 1),
                                              es[N]).v
            /\ accumulators[1] = foldr_last(memory, call.a, functor(f)).ret.v

\* A scan from the right without base of at least three elements, whose
\* first accumulator is not what the left-associative reading gives and is
\* not the last element.
C18_Witness ==
    /\ call.op = "scanr"
    /\ call.xs[2] = no_base
    /\ Len(scanned) >= 3
    /\ accumulators[1] # accumulators[Len(scanned)]
    /\ LET es == arguments(memory, call.was)
       IN  accumulators[1] # left_associative(call.xs[1], Head(es), Tail(es)).v

\* C19: when a base is given, scanl(t, f, base) on a tuple of arity N is a
\* tuple of arity N + 1 that holds every intermediate accumulator in order:
\* the base at position 0, and at position k the foldl of the first k elements
\* of t seeded with the base; for the empty tuple it is the one-element tuple
\* that holds the base.
C19_ScanlBase ==
    call.op = "scanl" /\ call.xs[2] # no_base =>
        LET f == call.xs[1]
            base == call.xs[2]
            es == arguments(memory, call.was)
            N == Len(es)
        IN  /\ Len(scanned) = N + 1
            /\ accumulators[1] = base.v
            /\ \A k \in 0..N :
                   accumulators[k + 1]
                       = left_associative(f, base, SubSeq(es, 1, k)).v

\* C19, for the tuples that have an element: the same statement, which holds
\* there because every element of the result is then a copy.
C19_ScanlBaseOfElements ==
    call.op = "scanl" /\ call.xs[2] # no_base /\ call.was # <<>> =>
        LET f == call.xs[1]
            base == call.xs[2]
            es == arguments(memory, call.was)
            N == Len(es)
        IN  /\ Len(scanned) = N + 1
            /\ \A k \in 1..N + 1 : ~is_reference(scanned[k].T)
            /\ \A k \in 0..N :
                   accumulators[k + 1]
                       = left_associative(f, base, SubSeq(es, 1, k)).v

\* The empty tuple was scanned with a literal as the base: the result refers
\* to the temporary made from the literal, and reads another number than the
\* base once the temporary is gone.
C19_Witness ==
    /\ call.op = "scanl"
    /\ call.xs[2] # no_base
    /\ call.was = <<>>
    /\ Len(scanned) = 1
    /\ is_reference(scanned[1].T)
    /\ scanned[1].m_value = address_of_temporary
    /\ accumulators[1] # call.xs[2].v


\* C20: foreach(t, f, args...) invokes f once per element in the order of the
\* positions 0, 1, ..., N-1 and rforeach in the order N-1, ..., 0, each call
\* finishing with its side effects before the next one starts: with f(x, y)
\* doing x = x + (++y) and one counter shared by the calls, the k-th call
\* sees the counter that the k-1 calls before it incremented, so that foreach
\* adds I + 1 to the element at position I and rforeach adds N - I, on top of
\* the counter at the call (from 0: (1,2,3,4) becomes (2,4,6,8) and (5,5,5,5)).
C20_Foreach ==
    [][call' # call /\ call'.op \in {"foreach", "rforeach"} =>
           LET a == call'.a
               N == count(memory, a)
               visited(k) == IF call'.op = "foreach" THEN k - 1 ELSE N - k
               nth(I) == IF call'.op = "foreach" THEN I + 1 ELSE N - I
           IN  /\ Len(log') = N
               /\ \A k \in 1..N :
                      /\ log'[k].I = visited(k)
                      /\ log'[k].x = read(memory, a, visited(k))
                      /\ log'[k].y = index + (k - 1) * Scale
               /\ index' = index + N * Scale
               /\ \A I \in 0..N - 1 :
                      read(memory', a, I)
                          = read(memory, a, I) + index + nth(I) * Scale
    ]_vars

\* rforeach was the first call with the counter and visited the tied array
\* from its last element, which got 1 added, to its first, which got the
\* array's length added.
C20_Witness ==
    /\ call.op = "rforeach"
    /\ call.a = "tied"
    /\ call.prev[1] = "none"
    /\ index = ArrLen * Scale
    /\ Len(log) = ArrLen
    /\ log[1].I = ArrLen - 1
    /\ log[ArrLen].I = 0
    /\ array[ArrLen] = log[1].x + Scale
    /\ array[1] = log[ArrLen].x + ArrLen * Scale
    /\ ArrLen > 1


\* C21: foreach, rforeach and apply thread the same extra arguments to every
\* functor call: the k-th invocation receives the same argument object as the
\* first, holding what the earlier calls left in it, whether the caller
\* passed a named variable or a temporary, and no invocation receives an
\* argument that an earlier invocation has moved from.
C21_SameArguments ==
    call.op \in {"apply", "foreach", "rforeach"} /\ Len(call.xs) = 3 =>
        \A k \in 1..Len(log) :
            /\ log[k].at = log[1].at
            /\ log[k].at = bound(call.xs[1])
            /\ ~log[k].consumed
            /\ k > 1 /\ call.b = "reference" =>
                   log[k].y = log[k - 1].y + Scale

\* C21, for the arguments that no invocation can move from: a named
\* variable, an argument that the functor takes by reference, a scalar.
C21_SameArgumentsUnmoved ==
    /\ call.op \in {"apply", "foreach", "rforeach"}
    /\ Len(call.xs) = 3
    /\ \/ call.xs[1] = "named"
       \/ call.b = "reference"
       \/ call.xs[2] = "int"
    => \A k \in 1..Len(log) :
           /\ log[k].at = bound(call.xs[1])
           /\ ~log[k].consumed
           /\ k > 1 =>
                  log[k].y = log[k - 1].y
                                 + (IF call.b = "reference" THEN Scale ELSE 0)

\* apply was called with a temporary string and a functor that takes it by
\* value: the second invocation received the string that the first one had
\* moved from, holding another string than the caller passed.
C21_Witness ==
    /\ call.op = "apply"
    /\ call.xs = <<"temporary", "string", Scale>>
    /\ call.b = "value"
    /\ Len(log) = MaxLen
    /\ log[2].consumed
    /\ log[2].y # log[1].y
    /\ read(memory, "r", log[2].I) # read(memory, "r", log[1].I)


\* C22: convert(t) converts nothing when it is called: it returns a wrapper
\* bound to the tuple, by reference for an lvalue tuple and by taking
\* ownership for an rvalue tuple, and the target is built from the tuple's
\* elements, passed in the order of the positions 0..N-1, only where the
\* wrapper is converted to the target type; for an lvalue tuple the target
\* is built from the values the tuple holds at the conversion, not at the
\* call of convert.
C22_ConvertIsLazy ==
    [][/\ call'.op = "convert" /\ call.op = "none" =>
              /\ r' = r /\ log' = log
              /\ tuple' = tuple /\ array' = array
              /\ converter'.T
                     = (IF call'.b = "lvalue" THEN "reference" ELSE "value")
              /\ call'.b = "lvalue" => converter'.n = call'.a
       /\ call'.op = "operator U" /\ call.op = "convert" =>
              /\ count(memory', "r") = count(memory, call.a)
              /\ \A k \in 1..Len(log') : log'[k].I = k - 1
              /\ Len(log') = count(memory, call.a)
              /\ converter.T = "reference" =>
                     contents(memory', "r") = contents(memory, call.a)
              /\ converter.T = "value" =>
                     \A I \in 0..count(memory, call.a) - 1 :
                         read(memory', "r", I)
                             = leaf_read(memory, converter.m_ref[I + 1])
    ]_vars

\* The owning tuple was wrapped as an lvalue, then written to, then
\* converted: the target holds the number written, not the number the tuple
\* held when convert was called.
C22_Witness ==
    /\ call.op = "operator U"
    /\ call.a = "tuple"
    /\ call.b = "lvalue"
    /\ last.op = "set"
    /\ count(memory, "r") = MaxLen
    /\ contents(memory, "r") # call.xs
    /\ read(memory, "r", last.I) = last.v
    /\ log[MaxLen].I = MaxLen - 1


\* C23: an n-ary tuple of length N constructed from an array of length N gets
\* position i from array element i for every i in 0..N-1, copied, or moved
\* when the array is a moving value; the construction reads exactly the
\* indices 0..N-1 of the array, and in the copying form the array is left
\* unchanged.
C23_NTupleFromArray ==
    call.op = "ntuple_t(array)" =>
        /\ count(memory, "r") = ArrLen
        /\ \A i \in 0..ArrLen - 1 :
               /\ ~is_reference(memory.r[i + 1].T)
               /\ read(memory, "r", i) = call.xs[i + 1]
        /\ {log[k].I : k \in 1..Len(log)} = 0..ArrLen - 1
        /\ Len(log) = ArrLen
        /\ \A k \in 1..Len(log) : log[k].x = call.xs[log[k].I + 1]
        /\ call.b = "lvalue" => array = call.xs

\* An n-ary tuple was copied out of an array of distinct numbers.
C23_Witness ==
    /\ call.op = "ntuple_t(array)"
    /\ call.b = "lvalue"
    /\ count(memory, "r") = ArrLen
    /\ read(memory, "r", ArrLen - 1) = array[ArrLen]
    /\ array[1] # array[ArrLen]


\* C24: constructing or assigning a tuple from another tuple of the same
\* arity sets each destination position i from source position i and from
\* nothing else, converted to the destination's declared element type,
\* whatever the order in which the positions are handled; in the copying
\* form the source tuple is unchanged afterwards, and the destination's arity
\* is unchanged.
C24_PositionWise ==
    LET before == call.was
        N == count(before, call.b)
        copying == call.op \in {"tuple_t(const tuple_t&)",
                                "operator=(const tuple_t&)"}
    IN  call.op \in {"tuple_t(const tuple_t&)", "tuple_t(tuple_t&&)",
                     "operator=(const tuple_t&)", "operator=(tuple_t&&)"} =>
            /\ count(memory, call.a) = N
            /\ call.op \in {"operator=(const tuple_t&)",
                            "operator=(tuple_t&&)"} =>
                   /\ count(before, call.a) = N
                   /\ \A i \in 0..N - 1 :
                          tuple_element_t(memory, call.a, i)
                              = tuple_element_t(before, call.a, i)
            /\ call.op \in {"tuple_t(const tuple_t&)",
                            "tuple_t(tuple_t&&)"} =>
                   \A i \in 0..N - 1 :
                       tuple_element_t(memory, call.a, i) = call.xs[i + 1]
            /\ \A i \in 0..N - 1 :
                   read(memory, call.a, i)
                       = implicit_conversion(
                             tuple_element_t(memory, call.a, i),
                             read(before, call.b, i))
            /\ copying =>
                   /\ memory[call.b] = before[call.b]
                   /\ contents(memory, call.b) = contents(before, call.b)

\* A tuple of two int elements was constructed from, or assigned, the tied
\* array, whose elements are two different numbers, one of them with a
\* fraction that the conversion drops.
C24_Witness ==
    /\ call.op \in {"tuple_t(const tuple_t&)", "operator=(const tuple_t&)"}
    /\ call.b = "tied"
    /\ count(memory, call.a) = ArrLen
    /\ \A i \in 0..ArrLen - 1 : tuple_element_t(memory, call.a, i) = "int"
    /\ \E i \in 0..ArrLen - 1 :
           read(memory, call.a, i) # read(memory, "tied", i)
    /\ read(memory, call.a, 0) # read(memory, call.a, ArrLen - 1)


\* C30: move-constructing or move-assigning a tuple from a tied tuple whose
\* elements are lvalue references, tie(refs...) or tie(array), copies the
\* referenced values and never moves from them: after the operation every
\* referenced variable and array element holds the value it held before.
C30_TiedIsCopied ==
    LET before == call.was
    IN  /\ call.op \in {"tuple_t(tuple_t&&)", "operator=(tuple_t&&)"}
        /\ call.b = "tied"
        => /\ array = before.array
           /\ named = before.named
           /\ tied = before.tied
           /\ \A i \in 0..count(before, "tied") - 1 :
                  /\ load(memory, before.tied[i + 1].m_value)
                         = read(before, "tied", i)
                  /\ read(memory, call.a, i)
                         = implicit_conversion(
                               tuple_element_t(memory, call.a, i),
                               read(before, "tied", i))

\* A tuple of one std::string was move-constructed from tie(named), where
\* named is a std::string that is not empty: the new tuple holds the string
\* and named holds it still.
C30_Witness ==
    /\ call.op = "tuple_t(tuple_t&&)"
    /\ call.b = "tied"
    /\ count(memory, "tied") = 1
    /\ tuple_element_t(memory, "tied", 0) = "string&"
    /\ tuple_element_t(memory, "r", 0) = "string"
    /\ named.v # 0
    /\ read(memory, "r", 0) = named.v


\* The combinators whose copying forms the caller calls.
Combinators ==
    {"tail", "init", "reverse", "append", "prepend", "concat", "zip",
     "zipwith", "foldl", "foldr", "scanl", "scanr", "apply", "forward"}

\* C25: the copying forms of tail, init, reverse, append, prepend, concat,
\* zip, zipwith, foldl, foldr, scanl, scanr, and of apply and forward with a
\* functor that does not write to its arguments, leave their argument tuples
\* unchanged: after the call every argument tuple has the same arity and the
\* same value at every position as before, and the result is a new tuple.
C25_ArgumentsUnchanged ==
    [][call'.op \in Combinators /\ call' # call =>
           /\ call'.was = (IF call'.b \in Tuples
                           THEN memory[call'.a] \o memory[call'.b]
                           ELSE memory[call'.a])
           /\ \A t \in {call'.a, call'.b} \cap {"tuple", "tied"} :
                  /\ memory'[t] = memory[t]
                  /\ count(memory', t) = count(memory, t)
                  /\ contents(memory', t) = contents(memory, t)
           /\ array' = array
           /\ named' = named
    ]_vars

\* reverse was called on the caller's tuple of MaxLen strings, none of them
\* empty: the result holds the strings and the tuple holds them still.
C25_Witness ==
    /\ call.op = "reverse"
    /\ call.a = "tuple"
    /\ count(memory, "tuple") = MaxLen
    /\ \A I \in 0..MaxLen - 1 :
           /\ tuple_element_t(memory, "tuple", I) = "string"
           /\ read(memory, "tuple", I) # 0
           /\ read(memory, "r", I) = read(memory, "tuple", MaxLen - 1 - I)
    /\ call.was = tuple


\* C26: destroying a tuple destroys every element exactly once and in
\* positional order: the element at position 0 first, then position 1, and
\* so on up to position N-1.
C26_DestroyedInOrder ==
    call.op = "~tuple_t" =>
        /\ Len(log) = Len(call.was)
        /\ \A k \in 1..Len(log) : log[k].I = k - 1

\* C26, amended: destroying a tuple destroys every element exactly once and
\* in the reverse of the positional order: the element at position N-1
\* first, then position N-2, and so on down to position 0.
C26_DestroyedInReverse ==
    call.op = "~tuple_t" =>
        /\ Len(log) = Len(call.was)
        /\ \A I \in 0..Len(call.was) - 1 :
               Cardinality({k \in 1..Len(log) : log[k].I = I}) = 1
        /\ \A k \in 1..Len(log) :
               /\ log[k].I = Len(call.was) - k
               /\ log[k].x = call.was[log[k].I + 1].m_value

\* A tuple of MaxLen elements was destroyed, its last element first.
C26_Witness ==
    /\ call.op = "~tuple_t"
    /\ Len(call.was) = MaxLen
    /\ Len(log) = MaxLen
    /\ log[1].I = MaxLen - 1
    /\ log[MaxLen].I = 0
    /\ r = <<>>


\* The positions a fold or a scan consumes, in the order of the traversal:
\* ascending for foldl and scanl, descending for foldr and scanr, all N with
\* a base and all but the seed's without.
consumed(op, N, base) ==
    LET seeds == IF base = no_base THEN 1 ELSE 0
        n == N - seeds
    IN  IF op \in {"foldl", "scanl"} THEN [k \in 1..n |-> seeds + k - 1]
        ELSE [k \in 1..n |-> N - seeds - k]

\* The seed of a fold or a scan: the base, or without one the first element
\* for foldl and scanl and the last for foldr and scanr.
seed(op, es, base) ==
    IF base # no_base THEN base.v
    ELSE IF op \in {"foldl", "scanl"} THEN es[1].v
    ELSE es[Len(es)].v

\* What the caller's functor named f returned for the arguments recorded in
\* the invocation i.
returned(f, i) ==
    operator_call(f, prvalue("double", i.x), prvalue("double", i.y)).v

\* The accumulator and the element that the invocation i handed to the
\* functor: foldl and scanl pass the accumulator first, foldr and scanr
\* second.
accumulator(op, i) == IF op \in {"foldl", "scanl"} THEN i.x ELSE i.y

element(op, i) == IF op \in {"foldl", "scanl"} THEN i.y ELSE i.x

joined == IF call.op = "prepend" THEN 0 ELSE count(memory, "r") - 1

\* C28: the tuple returned by append(t, e) or prepend(t, e) holds its own
\* copy of the element e when e is passed as a plain value: in the copying
\* form and in the moving form alike, including a temporary tuple combined
\* with a named variable e, changing the caller's variable e after the call
\* does not change the returned tuple.
C28_OwnCopy ==
    call.op \in {"prepend", "append"} =>
        /\ count(memory, "r") = Len(call.was) + 1
        /\ read(memory, "r", joined) = call.xs[3]

\* The part of C28 that holds: the element of the returned tuple is the value
\* e had at the call in the copying form, and in the moving form when e is a
\* temporary.
C28_OwnCopyOfCopyingForm ==
    /\ call.op \in {"prepend", "append"}
    /\ call.b = "const tuple_t&" \/ call.xs[1] = "temporary"
    => /\ count(memory, "r") = Len(call.was) + 1
       /\ ~is_reference(tuple_element_t(memory, "r", joined))
       /\ read(memory, "r", joined) = call.xs[3]

\* prepend was called in its moving form with a temporary tuple and a named
\* variable e, and e was written to afterwards.
C28_Witness ==
    /\ call.op = "prepend"
    /\ call.b = "tuple_t&&"
    /\ call.xs[1] = "named"
    /\ last.op = "e ="
    /\ named.v # call.xs[3]
    /\ count(memory, "r") = Len(call.was) + 1


\* The accumulators of the scan that the caller made, computed from the
\* numbers that the tuple and the base held at the call.
scanned_at_call ==
    LET f == call.xs[1]
        base == call.xs[2]
        es == arguments(memory, call.was)
        N == Len(es)
    IN  IF call.op = "scanl"
        THEN IF base = no_base
             THEN [k \in 1..N |->
                      left_associative(f, es[1], SubSeq(es, 2, k)).v]
             ELSE [k \in 1..N + 1 |->
                      left_associative(f, base, SubSeq(es, 1, k - 1)).v]
        ELSE IF base = no_base
             THEN [k \in 1..N |->
                      right_associative(f, SubSeq(es, k, N - 1), es[N]).v]
             ELSE [k \in 1..N + 1 |->
                      right_associative(f, SubSeq(es, k, N), base).v]

\* C29: the tuple returned by scanl or scanr over a tuple of owned values
\* holds its accumulators by value: for every input arity, including a
\* one-element tuple without base and an empty tuple with a base passed as a
\* named variable, changing the input tuple's elements or the base variable
\* after the call does not change any element of the result.
C29_ByValue ==
    call.op \in {"scanl", "scanr"} /\ call.a = "tuple"
    => accumulators = scanned_at_call

\* The part of C29 that holds: a scan that invoked the functor at least once
\* holds every accumulator by value.
C29_ByValueWhenInvoked ==
    call.op \in {"scanl", "scanr"} /\ call.a = "tuple" /\ log # <<>>
    => /\ \A k \in 1..Len(scanned) : ~is_reference(scanned[k].T)
       /\ accumulators = scanned_at_call

\* A one-element tuple was scanned without base and written to afterwards:
\* the result reads the number written.
C29_Witness ==
    /\ call.op = "scanl"
    /\ call.a = "tuple"
    /\ call.xs[2] = no_base
    /\ Len(call.was) = 1
    /\ last.op = "set"
    /\ Len(scanned) = 1
    /\ accumulators[1] = last.v
    /\ accumulators[1] # call.was[1].m_value

====
